---------------------------- MODULE Spec2Model ----------------------------
(***************************************************************************)
(* A model of the in-memory Entity Store (class ThemeStorageSystem) of the *)
(* document knowledge-graph analyzer, and of the part of                   *)
(* DocumentConnectionAnalyzer.storeDocuments that feeds it.                *)
(*                                                                         *)
(* Conventions                                                             *)
(*  - A JavaScript string is a sequence of one-character strings, so that  *)
(*    normalizeText, split and the id templates are computed and not       *)
(*    assumed.                                                             *)
(*  - A Map is a sequence of records in insertion order (each record       *)
(*    carries its key in the field id), or, for the four indices and the   *)
(*    link metadata, a function whose DOMAIN is the key set.               *)
(*  - A Set is a set, and so is an array made from a Set when no operation *)
(*    reads its order.  Where the iteration order of a Set or Map can be   *)
(*    observed (the order of ties after a stable sort), every order is     *)
(*    allowed.                                                             *)
(*  - importance and confidence are kept in tenths (9 stands for 0.9), a   *)
(*    connection strength in hundredths (108 stands for 1.08), so that the *)
(*    factor 1.2 of the definitions is the integer factor 12.              *)
(*  - Date values (addedAt, createdAt, exportedAt) and the free-form       *)
(*    metadata / semanticTags arguments are not modelled: no operation     *)
(*    reads them.                                                          *)
(***************************************************************************)
EXTENDS Integers, Sequences, FiniteSets, TLC

VARIABLES
    documents,              \* this.documents              docId -> Document
    themes,                 \* this.themes                 themeId -> Theme
    definitions,            \* this.definitions            definitionId -> Definition
    themesByDocument,       \* docId -> Set<themeId>
    documentsByTheme,       \* themeId -> Set<docId>
    definitionsByDocument,  \* docId -> Set<definitionId>
    documentsByDefinition,  \* definitionId -> Set<docId>
    linkMetadata,           \* `${docId}-${themeId}` -> {confidence, context}
    connectionStrengths,    \* "doc1|doc2" -> strength
    nextId,                 \* this.nextId
    ret,                    \* the last mutating call: what it threw ("" if nothing)
                            \* and what it returned
    snapshot,               \* what the caller holds of the last export(): <<data>>,
                            \* <<>> before the first
    extractedData,          \* the extractedData of the last storeDocuments call:
                            \* <<data>>, <<>> before the first
    themesBefore,           \* this.themes as the last storeDocuments call found it
    connectionsBefore,      \* what getRelatedDocuments gave for each pair of
                            \* documents before the last call (where it is recorded)
    run,                    \* the processDocuments call in progress or last ended:
                            \* its arguments, locals, position and outcome
    analyzer,               \* the fields of DocumentConnectionAnalyzer besides
                            \* themeStorage and config
    semanticAnalyzer,       \* this.embeddingsCache and this.similarityCache of
                            \* SemanticAnalyzer
    semanticCall,           \* the last call of getEmbeddings or of
                            \* calculateSemanticSimilarity: its arguments, what
                            \* the Embedding Oracle answered, what it returned
    fallbackCalls           \* the calls of calculateSemanticSimilarity during
                            \* which the Embedding Oracle call threw

storeVars == <<documents, themes, definitions, themesByDocument, documentsByTheme,
               definitionsByDocument, documentsByDefinition, linkMetadata,
               connectionStrengths, nextId>>

semanticVars == <<semanticAnalyzer, semanticCall, fallbackCalls>>

\* the variables that the store operations of the first sections leave alone
otherVars == <<connectionsBefore, run, analyzer, semanticVars>>

vars == <<storeVars, ret, snapshot, extractedData, themesBefore, otherVars>>

-----------------------------------------------------------------------------
(* Bounds of the model.                                                    *)

\* addDocument is called at most MaxDocs times (caps the counter nextId).
MaxDocs == 3

\* At most MaxLinks successful link calls (caps the frequency counters).
MaxLinks == 4

\* At most MaxThemes Theme records where labels come from the large pool.
MaxThemes == 3

-----------------------------------------------------------------------------
(* Strings.                                                                *)

Range(s) == { s[i] : i \in DOMAIN s }

WhiteSpace == {" "}

\* String.prototype.toLowerCase, on one character
toLowerCase(c) ==
    IF c = "A" THEN "a" ELSE IF c = "B" THEN "b" ELSE c

\* /\w/ : letters, digits and the underscore
IsWordChar(c) == c \in {"a", "b", "c", "d", "e", "A", "B", "_"}

IsSpace(c) == c \in WhiteSpace

\* .replace(/[^\w\s]/g, " ")
ReplaceNonWord(s) ==
    [i \in DOMAIN s |-> IF IsWordChar(s[i]) \/ IsSpace(s[i]) THEN s[i] ELSE " "]

\* .replace(/\s+/g, r) : every maximal run of white space becomes r
RECURSIVE ReplaceSpaceRuns(_, _)
ReplaceSpaceRuns(s, r) ==
    IF s = <<>> THEN <<>>
    ELSE IF IsSpace(Head(s))
         THEN IF Len(s) > 1 /\ IsSpace(s[2])
              THEN ReplaceSpaceRuns(Tail(s), r)
              ELSE <<r>> \o ReplaceSpaceRuns(Tail(s), r)
         ELSE <<Head(s)>> \o ReplaceSpaceRuns(Tail(s), r)

RECURSIVE TrimStart(_)
TrimStart(s) ==
    IF s # <<>> /\ IsSpace(Head(s)) THEN TrimStart(Tail(s)) ELSE s

RECURSIVE TrimEnd(_)
TrimEnd(s) ==
    IF s # <<>> /\ IsSpace(s[Len(s)]) THEN TrimEnd(SubSeq(s, 1, Len(s) - 1)) ELSE s

\* String.prototype.trim
trim(s) == TrimEnd(TrimStart(s))

normalizeText(text) ==
    trim(ReplaceSpaceRuns(
            ReplaceNonWord([i \in DOMAIN text |-> toLowerCase(text[i])]), " "))

\* str.split(" ") : the pieces between single blanks ("" gives [""])
RECURSIVE split(_)
split(s) ==
    IF \A i \in DOMAIN s : s[i] # " " THEN <<s>>
    ELSE LET k == CHOOSE i \in DOMAIN s :
                     s[i] = " " /\ \A j \in 1..(i - 1) : s[j] # " "
         IN  <<SubSeq(s, 1, k - 1)>> \o split(SubSeq(s, k + 1, Len(s)))

\* Jaccard similarity as the pair <<|intersection|, |union|>>
calculateSimilarity(str1, str2) ==
    LET set1 == Range(split(str1))
        set2 == Range(split(str2))
        intersection == { x \in set1 : x \in set2 }
        union == set1 \cup set2
    IN  <<Cardinality(intersection), Cardinality(union)>>

\* similarity >= n/10, for the thresholds 0.8 and 0.6 of the code
AtLeast(similarity, tenths) == 10 * similarity[1] >= tenths * similarity[2]

-----------------------------------------------------------------------------
(* Maps.                                                                   *)

\* Map.prototype.has / get / set on a Map kept as a sequence of records
Has(map, id) == \E i \in DOMAIN map : map[i].id = id

Get(map, id) == map[CHOOSE i \in DOMAIN map : map[i].id = id]

MapSet(map, value) ==
    IF Has(map, value.id)
    THEN [i \in DOMAIN map |-> IF map[i].id = value.id THEN value ELSE map[i]]
    ELSE Append(map, value)

Keys(map) == { map[i].id : i \in DOMAIN map }

\* Map.prototype.set on a Map kept as a function
FnSet(f, k, v) == [x \in DOMAIN f \cup {k} |-> IF x = k THEN v ELSE f[x]]

EmptyFn == [x \in {} |-> {}]

-----------------------------------------------------------------------------
(* Ids.                                                                    *)

\* `doc-${n}`
DocId(n) == <<"doc-", n>>

\* `theme-${normalizedLabel.replace(/\s+/g, "-")}`
ThemeId(normalizedLabel) == <<"theme-">> \o ReplaceSpaceRuns(normalizedLabel, "-")

\* `def-${normalizedTerm.replace(/\s+/g, "-")}`
DefinitionId(normalizedTerm) == <<"def-">> \o ReplaceSpaceRuns(normalizedTerm, "-")

\* `${docId}-${themeId}`
LinkKey(docId, themeId) == docId \o <<"-">> \o themeId

-----------------------------------------------------------------------------
(* The inputs of the calls.                                                *)

DocInputs ==
    { [title |-> <<"Energy report">>, content |-> "solar"] }

\* two unrelated labels; a second call with the same label is a dedup hit
ThemeInputs ==
    { [label |-> <<"A", " ", "b">>, category |-> "general", importance |-> 9],
      [label |-> <<"c">>, category |-> "energy", importance |-> 6] }

DefinitionInputs ==
    { [term |-> <<"b", ".">>, definition |-> <<"e", " ">>, context |-> "intro",
       importance |-> 5] }

LinkInputs ==
    { [confidence |-> 7, context |-> "abstract"] }

\* minSharedThemes
MinSharedInputs == {1, 2}

\* Labels for the dedup of themes.  Word sets {a,b,c,d,e}, {a,b,c,d} and
\* {b,c,d,e}: the first is similar (4/5) to each of the other two, which are
\* not similar to each other (3/5).  "A b" and "a!b " normalize to "a b".
ThemeLabelInputs ==
    { [label |-> <<"a", " ", "b", " ", "c", " ", "d", " ", "e">>,
       category |-> "general", importance |-> 9],
      [label |-> <<"A", " ", "B", ".", "c", " ", "d">>,
       category |-> "general", importance |-> 7],
      [label |-> <<"b", " ", "c", " ", "d", " ", "e">>,
       category |-> "energy", importance |-> 6],
      [label |-> <<"A", " ", "b">>, category |-> "general", importance |-> 9],
      [label |-> <<"a", "!", "b", " ">>, category |-> "energy", importance |-> 8],
      [label |-> <<"a", " ", "b", " ", "c">>, category |-> "general", importance |-> 5],
      [label |-> <<"c">>, category |-> "energy", importance |-> 6],
      [label |-> <<"!">>, category |-> "general", importance |-> 10] }

\* ids a caller may pass, stored or not
DocIdInputs == { DocId(n) : n \in 1..MaxDocs }

ThemeIdInputs == { ThemeId(normalizeText(t.label)) : t \in ThemeInputs }

DefinitionIdInputs == { DefinitionId(normalizeText(d.term)) : d \in DefinitionInputs }

-----------------------------------------------------------------------------
(* constructor                                                             *)

\* no processDocuments call yet
IdleRun ==
    [number |-> 0, pc |-> "idle", documents |-> <<>>, config |-> <<>>,
     extractedData |-> <<>>, documentIds |-> <<>>, graphData |-> <<>>,
     stages |-> <<>>, extractionCalls |-> 0, embeddingCalls |-> 0,
     semanticThrew |-> FALSE, storeBefore |-> <<>>, analyzerBefore |-> <<>>,
     failedIn |-> "", error |-> <<>>, outcome |-> "", result |-> <<>>]

\* the constructor of DocumentConnectionAnalyzer; themeSemanticData and
\* documentRelationships are undefined until the first semantic analysis
NewAnalyzer ==
    [themeSemanticData |-> <<>>, documentRelationships |-> <<>>,
     processingCache |-> <<>>, analysisHistory |-> <<>>]

\* the constructor of SemanticAnalyzer: two empty Maps, each kept as the
\* function from its keys to its values
NewSemanticAnalyzer == [embeddingsCache |-> EmptyFn, similarityCache |-> EmptyFn]

NoSemanticCall ==
    [number |-> 0, op |-> "", texts |-> <<>>, oracle |-> <<>>, textsToFetch |-> <<>>,
     indices |-> <<>>, cacheBefore |-> <<>>, threw |-> "", results |-> <<>>,
     value |-> <<>>]

Init ==
    /\ documents = <<>>
    /\ themes = <<>>
    /\ definitions = <<>>
    /\ themesByDocument = EmptyFn
    /\ documentsByTheme = EmptyFn
    /\ definitionsByDocument = EmptyFn
    /\ documentsByDefinition = EmptyFn
    /\ linkMetadata = EmptyFn          \* created lazily by the first link
    /\ connectionStrengths = EmptyFn
    /\ nextId = 1
    /\ ret = [op |-> "constructor", threw |-> "", value |-> "undefined"]
    /\ snapshot = <<>>
    /\ extractedData = <<>>
    /\ themesBefore = <<>>
    /\ connectionsBefore = <<>>
    /\ run = IdleRun
    /\ analyzer = NewAnalyzer
    /\ semanticAnalyzer = NewSemanticAnalyzer
    /\ semanticCall = NoSemanticCall
    /\ fallbackCalls = {}

-----------------------------------------------------------------------------
(* The store as one value, so that a caller (storeDocuments) can make      *)
(* several calls in one step.  Each operation below maps the store s to    *)
(* [store, threw, value]: the store afterwards, the message of what the    *)
(* call threw ("" if nothing) and what it returned.                        *)

Store ==
    [documents |-> documents, themes |-> themes, definitions |-> definitions,
     themesByDocument |-> themesByDocument, documentsByTheme |-> documentsByTheme,
     definitionsByDocument |-> definitionsByDocument,
     documentsByDefinition |-> documentsByDefinition,
     linkMetadata |-> linkMetadata, connectionStrengths |-> connectionStrengths,
     nextId |-> nextId]

\* the fields of this become those of s
Becomes(s) ==
    /\ documents' = s.documents
    /\ themes' = s.themes
    /\ definitions' = s.definitions
    /\ themesByDocument' = s.themesByDocument
    /\ documentsByTheme' = s.documentsByTheme
    /\ definitionsByDocument' = s.definitionsByDocument
    /\ documentsByDefinition' = s.documentsByDefinition
    /\ linkMetadata' = s.linkMetadata
    /\ connectionStrengths' = s.connectionStrengths
    /\ nextId' = s.nextId

\* the call op is made on this, with the outcome r
Call(op, r) ==
    /\ Becomes(r.store)
    /\ ret' = [op |-> op, threw |-> r.threw, value |-> r.value]

-----------------------------------------------------------------------------
(* addDocument                                                             *)

\* addDocument that returns the document of the same title and content, if
\* there is one
addDocument_Deduplicated(s, title, content) ==
    LET same == { i \in DOMAIN s.documents :
                    s.documents[i].title = title /\ s.documents[i].content = content }
        docId == DocId(s.nextId)
        document == [id |-> docId, title |-> title, content |-> content,
                     themes |-> {}, definitions |-> {}, summary |-> ""]
    IN  IF same # {}
        THEN [store |-> s, threw |-> "",
              value |-> s.documents[CHOOSE i \in same : TRUE].id]
        ELSE [store |-> [s EXCEPT !.nextId = @ + 1,
                                  !.documents = MapSet(@, document),
                                  !.themesByDocument = FnSet(@, docId, {}),
                                  !.definitionsByDocument = FnSet(@, docId, {})],
              threw |-> "",
              value |-> docId]

addDocument(s, title, content) ==
    LET docId == DocId(s.nextId)
        document == [id |-> docId, title |-> title, content |-> content,
                     themes |-> {}, definitions |-> {}, summary |-> ""]
    IN  [store |-> [s EXCEPT !.nextId = @ + 1,
                             !.documents = MapSet(@, document),
                             !.themesByDocument = FnSet(@, docId, {}),
                             !.definitionsByDocument = FnSet(@, docId, {})],
         threw |-> "",
         value |-> docId]

-----------------------------------------------------------------------------
(* addTheme                                                                *)

\* as findSimilarTheme, with only an equal word set counting as similar
findSimilarTheme_ExactOnly(ths, normalizedLabel) ==
    LET hits == { i \in DOMAIN ths :
                    AtLeast(calculateSimilarity(normalizedLabel, ths[i].normalizedLabel),
                            10) }
    IN  IF hits = {} THEN 0 ELSE CHOOSE i \in hits : \A j \in hits : i <= j

\* as findSimilarTheme, with the comparison written > instead of >=
findSimilarTheme_Strict(ths, normalizedLabel) ==
    LET Similarity(i) == calculateSimilarity(normalizedLabel, ths[i].normalizedLabel)
        hits == { i \in DOMAIN ths : 10 * Similarity(i)[1] > 8 * Similarity(i)[2] }
    IN  IF hits = {} THEN 0 ELSE CHOOSE i \in hits : \A j \in hits : i <= j

\* The first theme, in insertion order, whose normalized label has
\* similarity >= 0.8 with normalizedLabel: its position in ths, 0 for null.
findSimilarTheme(ths, normalizedLabel) ==
    LET threshold == 8
        hits == { i \in DOMAIN ths :
                    AtLeast(calculateSimilarity(normalizedLabel, ths[i].normalizedLabel),
                            threshold) }
    IN  IF hits = {} THEN 0 ELSE CHOOSE i \in hits : \A j \in hits : i <= j

\* ths after groupSimilarThemes(themeId, theme), theme being stored in ths
groupSimilarThemes(ths, themeId) ==
    LET theme == Get(ths, themeId)
        similar == { ths[i].id : i \in { j \in DOMAIN ths :
                        /\ ths[j].id # themeId
                        /\ AtLeast(calculateSimilarity(theme.normalizedLabel,
                                                       ths[j].normalizedLabel), 6) } }
    IN  [i \in DOMAIN ths |->
            IF ths[i].id = themeId
            THEN [ths[i] EXCEPT !.relatedThemes = @ \cup similar]
            ELSE IF ths[i].id \in similar
                 THEN [ths[i] EXCEPT !.relatedThemes = @ \cup {themeId}]
                 ELSE ths[i]]

\* as addThemeResult, but a dedup hit takes over the importance of the call
addThemeResult_Overwrite(ths, label, category, importance) ==
    LET normalizedLabel == normalizeText(label)
        themeId == ThemeId(normalizedLabel)
        similarTheme == findSimilarTheme(ths, normalizedLabel)
        theme == [id |-> themeId, label |-> trim(label),
                  normalizedLabel |-> normalizedLabel, category |-> category,
                  importance |-> importance, documents |-> {},
                  relatedThemes |-> {}, frequency |-> 0]
    IN  IF similarTheme # 0
        THEN [themes |-> [ths EXCEPT ![similarTheme].importance = importance],
              id |-> ths[similarTheme].id, created |-> FALSE]
        ELSE [themes |-> groupSimilarThemes(MapSet(ths, theme), themeId),
              id |-> themeId, created |-> TRUE]

\* addTheme on the theme map ths: the map afterwards, the id returned, and
\* whether a record was created
addThemeResult(ths, label, category, importance) ==
    LET normalizedLabel == normalizeText(label)
        themeId == ThemeId(normalizedLabel)
        similarTheme == findSimilarTheme(ths, normalizedLabel)
        theme == [id |-> themeId, label |-> trim(label),
                  normalizedLabel |-> normalizedLabel, category |-> category,
                  importance |-> importance, documents |-> {},
                  relatedThemes |-> {}, frequency |-> 0]
    IN  IF similarTheme # 0
        THEN [themes |-> ths, id |-> ths[similarTheme].id, created |-> FALSE]
        ELSE [themes |-> groupSimilarThemes(MapSet(ths, theme), themeId),
              id |-> themeId, created |-> TRUE]

addTheme(s, label, category, importance) ==
    LET r == addThemeResult(s.themes, label, category, importance)
    IN  [store |-> [s EXCEPT !.themes = r.themes,
                             !.documentsByTheme =
                                 IF r.created THEN FnSet(@, r.id, {}) ELSE @],
         threw |-> "",
         value |-> r.id]

-----------------------------------------------------------------------------
(* addDefinition                                                           *)

\* as addDefinition, but a dedup hit takes over the definition and the
\* importance of the call
addDefinition_Merged(s, term, definition, context, importance) ==
    LET normalizedTerm == normalizeText(term)
        definitionId == DefinitionId(normalizedTerm)
        def == [id |-> definitionId, term |-> trim(term),
                normalizedTerm |-> normalizedTerm, definition |-> trim(definition),
                context |-> context, importance |-> importance,
                documents |-> {}, frequency |-> 0]
        Merge(old) == [old EXCEPT !.definition = trim(definition),
                                  !.importance = importance]
    IN  [store |-> IF Has(s.definitions, definitionId)
                   THEN [s EXCEPT !.definitions =
                            [i \in DOMAIN @ |->
                                IF @[i].id = definitionId THEN Merge(@[i]) ELSE @[i]]]
                   ELSE [s EXCEPT !.definitions = MapSet(@, def),
                                  !.documentsByDefinition = FnSet(@, definitionId, {})],
         threw |-> "",
         value |-> definitionId]

addDefinition(s, term, definition, context, importance) ==
    LET normalizedTerm == normalizeText(term)
        definitionId == DefinitionId(normalizedTerm)
        def == [id |-> definitionId, term |-> trim(term),
                normalizedTerm |-> normalizedTerm, definition |-> trim(definition),
                context |-> context, importance |-> importance,
                documents |-> {}, frequency |-> 0]
    IN  [store |-> IF Has(s.definitions, definitionId) THEN s
                   ELSE [s EXCEPT !.definitions = MapSet(@, def),
                                  !.documentsByDefinition = FnSet(@, definitionId, {})],
         threw |-> "",
         value |-> definitionId]

-----------------------------------------------------------------------------
(* linkDocumentToTheme, linkDocumentToDefinition                           *)

RECURSIVE SumFrequency(_)
SumFrequency(map) ==
    IF map = <<>> THEN 0 ELSE Head(map).frequency + SumFrequency(Tail(map))

\* the successful link calls made on the store s
LinkCallsOn(s) == SumFrequency(s.themes) + SumFrequency(s.definitions)

\* the successful link calls so far
LinkCalls == LinkCallsOn(Store)

\* key.includes(docId)
Includes(key, docId) ==
    \E i \in 1..(Len(key) - Len(docId) + 1) :
        \A j \in DOMAIN docId : ToString(key[i + j - 1]) = ToString(docId[j])

\* invalidateConnectionCache that deletes nothing
invalidateConnectionCache_Kept(cache, docId) == cache

\* the cache after invalidateConnectionCache(docId)
invalidateConnectionCache(cache, docId) ==
    [key \in { k \in DOMAIN cache : ~Includes(k, docId) } |-> cache[key]]

\* as AddToField, but the frequency counts the documents: it stays when v
\* is in the set already
AddToField_Distinct(map, id, v, field) ==
    [i \in DOMAIN map |->
        IF map[i].id # id THEN map[i]
        ELSE IF field = "themes" THEN [map[i] EXCEPT !.themes = @ \cup {v}]
        ELSE IF field = "definitions" THEN [map[i] EXCEPT !.definitions = @ \cup {v}]
        ELSE [map[i] EXCEPT !.documents = @ \cup {v},
                            !.frequency = IF v \in map[i].documents THEN @ ELSE @ + 1]]

\* as AddToField, but doc.definitions.add(definitionId) is left out
AddToField_NoDefinitions(map, id, v, field) ==
    [i \in DOMAIN map |->
        IF map[i].id # id THEN map[i]
        ELSE IF field = "themes" THEN [map[i] EXCEPT !.themes = @ \cup {v}]
        ELSE IF field = "definitions" THEN map[i]
        ELSE [map[i] EXCEPT !.documents = @ \cup {v}, !.frequency = @ + 1]]

\* x.field.add(v) / x.frequency++ on the record stored under id
AddToField(map, id, v, field) ==
    [i \in DOMAIN map |->
        IF map[i].id # id THEN map[i]
        ELSE IF field = "themes" THEN [map[i] EXCEPT !.themes = @ \cup {v}]
        ELSE IF field = "definitions" THEN [map[i] EXCEPT !.definitions = @ \cup {v}]
        ELSE [map[i] EXCEPT !.documents = @ \cup {v}, !.frequency = @ + 1]]

\* the guard written with && : it lets a call with one missing id through
NotFound_BothMissing(docs, docId, map, id) == ~Has(docs, docId) /\ ~Has(map, id)

\* !this.documents.has(docId) || !map.has(id)
NotFound(docs, docId, map, id) == ~Has(docs, docId) \/ ~Has(map, id)

\* forwardIndex.get(docId).add(id)
ForwardAdd(index, docId, id) == [index EXCEPT ![docId] = @ \cup {id}]

\* the reverse entry is not written
ReverseAdd_Skipped(index, id, docId) == index

\* reverseIndex.get(id).add(docId)
ReverseAdd(index, id, docId) == [index EXCEPT ![id] = @ \cup {docId}]

linkDocumentToTheme(s, docId, themeId, confidence, context) ==
    IF NotFound(s.documents, docId, s.themes, themeId)
    THEN [store |-> s, threw |-> "Error: Document or theme not found",
          value |-> "undefined"]
    ELSE IF docId \notin DOMAIN s.themesByDocument
    THEN \* .get(docId) is undefined: nothing done yet
         [store |-> s, threw |-> "TypeError", value |-> "undefined"]
    ELSE IF themeId \notin DOMAIN s.documentsByTheme
    THEN \* thrown after the forward entry was added
         [store |-> [s EXCEPT !.themesByDocument = ForwardAdd(@, docId, themeId)],
          threw |-> "TypeError", value |-> "undefined"]
    ELSE [store |->
            [s EXCEPT
               !.themesByDocument = ForwardAdd(@, docId, themeId),
               !.documentsByTheme = ReverseAdd(@, themeId, docId),
               !.documents = AddToField(@, docId, themeId, "themes"),
               !.themes = AddToField(@, themeId, docId, "documents"),
               !.linkMetadata = FnSet(@, LinkKey(docId, themeId),
                                      [confidence |-> confidence, context |-> context]),
               !.connectionStrengths = invalidateConnectionCache(@, docId)],
          threw |-> "", value |-> "undefined"]

linkDocumentToDefinition(s, docId, definitionId) ==
    IF NotFound(s.documents, docId, s.definitions, definitionId)
    THEN [store |-> s, threw |-> "Error: Document or definition not found",
          value |-> "undefined"]
    ELSE IF docId \notin DOMAIN s.definitionsByDocument
    THEN [store |-> s, threw |-> "TypeError", value |-> "undefined"]
    ELSE IF definitionId \notin DOMAIN s.documentsByDefinition
    THEN [store |-> [s EXCEPT !.definitionsByDocument =
                                  ForwardAdd(@, docId, definitionId)],
          threw |-> "TypeError", value |-> "undefined"]
    ELSE [store |->
            [s EXCEPT
               !.definitionsByDocument = ForwardAdd(@, docId, definitionId),
               !.documentsByDefinition = ReverseAdd(@, definitionId, docId),
               !.documents = AddToField(@, docId, definitionId, "definitions"),
               !.definitions = AddToField(@, definitionId, docId, "documents"),
               !.connectionStrengths = invalidateConnectionCache(@, docId)],
          threw |-> "", value |-> "undefined"]

-----------------------------------------------------------------------------
(* getRelatedDocuments                                                     *)

NewRelation == [sharedThemes |-> {}, sharedDefinitions |-> {}, score |-> 0]

\* a theme that adds nothing to the score
ThemeWeight_Nothing(theme) == 0 * theme.importance

\* score += theme.importance, in hundredths
ThemeWeight(theme) == 10 * theme.importance

\* a definition weighted like a theme
DefinitionWeight_Unweighted(def) == 10 * def.importance

\* score += def.importance * 1.2, in hundredths
DefinitionWeight(def) == 12 * def.importance

\* The loop over docThemes and docsWithTheme: pairs holds the
\* <<themeId, otherDocId>> still to visit, rel is relatedDocs.
RECURSIVE AccumulateThemes(_, _)
AccumulateThemes(pairs, rel) ==
    IF pairs = {} THEN rel
    ELSE LET p == CHOOSE q \in pairs : TRUE
             themeId == p[1]
             otherDocId == p[2]
             relation == IF otherDocId \in DOMAIN rel THEN rel[otherDocId]
                         ELSE NewRelation
         IN  AccumulateThemes(pairs \ {p},
                FnSet(rel, otherDocId,
                      [relation EXCEPT
                          !.sharedThemes = @ \cup {themeId},
                          !.score = @ + ThemeWeight(Get(themes, themeId))]))

\* The loop over docDefinitions and docsWithDefinition
RECURSIVE AccumulateDefinitions(_, _)
AccumulateDefinitions(pairs, rel) ==
    IF pairs = {} THEN rel
    ELSE LET p == CHOOSE q \in pairs : TRUE
             definitionId == p[1]
             otherDocId == p[2]
             relation == IF otherDocId \in DOMAIN rel THEN rel[otherDocId]
                         ELSE NewRelation
         IN  AccumulateDefinitions(pairs \ {p},
                FnSet(rel, otherDocId,
                      [relation EXCEPT
                          !.sharedDefinitions = @ \cup {definitionId},
                          !.score = @ + DefinitionWeight(Get(definitions, definitionId))]))

\* relatedDocs when the two loops are done
relatedDocs(docId, includeDefinitions) ==
    LET docThemes == themesByDocument[docId]
        docDefinitions == definitionsByDocument[docId]
        themePairs == { <<themeId, otherDocId>> \in
                          docThemes \X UNION { documentsByTheme[t] : t \in docThemes } :
                            /\ otherDocId \in documentsByTheme[themeId]
                            /\ otherDocId # docId }
        definitionPairs ==
            IF includeDefinitions
            THEN { <<definitionId, otherDocId>> \in
                     docDefinitions \X
                        UNION { documentsByDefinition[d] : d \in docDefinitions } :
                            /\ otherDocId \in documentsByDefinition[definitionId]
                            /\ otherDocId # docId }
            ELSE {}
    IN  AccumulateDefinitions(definitionPairs, AccumulateThemes(themePairs, EmptyFn))

\* every order in which a Map with the key set S may be iterated
Orders(S) ==
    { o \in [1..Cardinality(S) -> S] : \A i, j \in DOMAIN o : o[i] = o[j] => i = j }

\* Array.prototype.sort((a, b) => b.f - a.f): stable, descending.  The list
\* holds pairs <<f, element>>.
RECURSIVE InsertDescending(_, _)
InsertDescending(sorted, e) ==
    IF sorted = <<>> THEN <<e>>
    ELSE IF Head(sorted)[1] >= e[1]
         THEN <<Head(sorted)>> \o InsertDescending(Tail(sorted), e)
         ELSE <<e>> \o sorted

RECURSIVE SortDescending(_)
SortDescending(list) ==
    IF list = <<>> THEN <<>>
    ELSE InsertDescending(SortDescending(SubSeq(list, 1, Len(list) - 1)),
                          list[Len(list)])

\* list.sort((a, b) => b.connectionStrength - a.connectionStrength)
SortByConnectionStrength(list) ==
    LET sorted == SortDescending([i \in DOMAIN list |->
                                     <<list[i].connectionStrength, list[i]>>])
    IN  [i \in DOMAIN sorted |-> sorted[i][2]]

\* what getRelatedDocuments may return: one list for every iteration
\* order of relatedDocs
getRelatedDocuments(docId, minSharedThemes, includeDefinitions) ==
    IF ~Has(documents, docId) THEN {<<>>}
    ELSE LET rel == relatedDocs(docId, includeDefinitions)
             Enough(otherDocId) ==
                 Cardinality(rel[otherDocId].sharedThemes)
                    + Cardinality(rel[otherDocId].sharedDefinitions) >= minSharedThemes
             Entry(otherDocId) ==
                 [documentId |-> otherDocId,
                  sharedThemes |-> rel[otherDocId].sharedThemes,
                  sharedDefinitions |-> rel[otherDocId].sharedDefinitions,
                  connectionStrength |-> rel[otherDocId].score,
                  totalShared |-> Cardinality(rel[otherDocId].sharedThemes)
                                    + Cardinality(rel[otherDocId].sharedDefinitions)]
             Mapped(entries) ==
                 LET kept == SelectSeq(entries, Enough)
                 IN  [i \in DOMAIN kept |-> Entry(kept[i])]
         IN  { SortByConnectionStrength(Mapped(entries)) :
                  entries \in Orders(DOMAIN rel) }

-----------------------------------------------------------------------------
(* getDocumentConnectivityMap                                              *)

\* the pair key without the sort
pairKey_Unsorted(docId, otherDocId) == docId \o <<"|">> \o otherDocId

\* [docId, relation.documentId].sort().join("|") ; the default sort compares
\* the ids as strings, which for `doc-${n}` with one digit is the order of n
pairKey(docId, otherDocId) ==
    IF docId[2] <= otherDocId[2]
    THEN docId \o <<"|">> \o otherDocId
    ELSE otherDocId \o <<"|">> \o docId

\* the inner loop: <<processedPairs, connections>> after the relations of docId
RECURSIVE PushRelations(_, _, _, _)
PushRelations(docId, related, processedPairs, connections) ==
    IF related = <<>> THEN <<processedPairs, connections>>
    ELSE LET relation == Head(related)
             key == pairKey(docId, relation.documentId)
         IN  IF key \in processedPairs
             THEN PushRelations(docId, Tail(related), processedPairs, connections)
             ELSE PushRelations(docId, Tail(related), processedPairs \cup {key},
                    Append(connections,
                       [source |-> docId,
                        target |-> relation.documentId,
                        strength |-> relation.connectionStrength,
                        sharedThemes |->
                            { Get(themes, t).label : t \in relation.sharedThemes },
                        sharedDefinitions |->
                            { Get(definitions, d).term : d \in relation.sharedDefinitions },
                        totalShared |-> relation.totalShared]))

\* connections.sort((a, b) => b.strength - a.strength)
SortByStrength(list) ==
    LET sorted == SortDescending([i \in DOMAIN list |-> <<list[i].strength, list[i]>>])
    IN  [i \in DOMAIN sorted |-> sorted[i][2]]

\* the outer loop from the i-th document on: every list it may end with
RECURSIVE ConnectivityRuns(_, _, _)
ConnectivityRuns(i, processedPairs, connections) ==
    IF i > Len(documents) THEN { SortByStrength(connections) }
    ELSE UNION { LET step == PushRelations(documents[i].id, related,
                                          processedPairs, connections)
                 IN  ConnectivityRuns(i + 1, step[1], step[2]) :
                    related \in getRelatedDocuments(documents[i].id, 1, TRUE) }

\* what getDocumentConnectivityMap may return
getDocumentConnectivityMap == ConnectivityRuns(1, {}, <<>>)

-----------------------------------------------------------------------------
(* The store under any sequence of add and link calls.  The queries        *)
(* (getRelatedDocuments, getDocumentConnectivityMap) change nothing: they   *)
(* are the operators above, applied to every reachable state.              *)

AddDocument ==
    \E d \in DocInputs :
        /\ nextId <= MaxDocs
        /\ Call("addDocument", addDocument(Store, d.title, d.content))
        /\ UNCHANGED <<snapshot, extractedData, themesBefore, otherVars>>

AddTheme ==
    \E t \in ThemeInputs :
        /\ Call("addTheme", addTheme(Store, t.label, t.category, t.importance))
        /\ UNCHANGED <<snapshot, extractedData, themesBefore, otherVars>>

AddDefinition ==
    \E d \in DefinitionInputs :
        /\ Call("addDefinition",
                addDefinition(Store, d.term, d.definition, d.context, d.importance))
        /\ UNCHANGED <<snapshot, extractedData, themesBefore, otherVars>>

LinkDocumentToTheme ==
    \E docId \in DocIdInputs, themeId \in ThemeIdInputs, l \in LinkInputs :
        LET r == linkDocumentToTheme(Store, docId, themeId, l.confidence, l.context)
        IN  /\ r.threw = "" => LinkCalls < MaxLinks
            /\ Call("linkDocumentToTheme", r)
            /\ UNCHANGED <<snapshot, extractedData, themesBefore, otherVars>>

LinkDocumentToDefinition ==
    \E docId \in DocIdInputs, definitionId \in DefinitionIdInputs :
        LET r == linkDocumentToDefinition(Store, docId, definitionId)
        IN  /\ r.threw = "" => LinkCalls < MaxLinks
            /\ Call("linkDocumentToDefinition", r)
            /\ UNCHANGED <<snapshot, extractedData, themesBefore, otherVars>>

Next ==
    \/ AddDocument
    \/ AddTheme
    \/ AddDefinition
    \/ LinkDocumentToTheme
    \/ LinkDocumentToDefinition

Spec == Init /\ [][Next]_vars

-----------------------------------------------------------------------------
(* The store under any sequence of addTheme calls, from the empty store.   *)

AddThemeLabel ==
    \E t \in ThemeLabelInputs :
        /\ addThemeResult(themes, t.label, t.category, t.importance).created
              => Len(themes) < MaxThemes
        /\ Call("addTheme", addTheme(Store, t.label, t.category, t.importance))
        /\ UNCHANGED <<snapshot, extractedData, themesBefore, otherVars>>

NextThemes == AddThemeLabel

SpecThemes == Init /\ [][NextThemes]_vars

\* the Jaccard similarity of the two normalized labels is >= 0.8
Similar(normalizedLabel1, normalizedLabel2) ==
    AtLeast(calculateSimilarity(normalizedLabel1, normalizedLabel2), 8)

\* C2  Theme dedup invariant: no two distinct Theme records have
\* normalized labels whose Jaccard similarity is >= 0.8.
NoSimilarThemes ==
    \A i, j \in DOMAIN themes :
        i # j => ~Similar(themes[i].normalizedLabel, themes[j].normalizedLabel)

\* the last call resolved to the first of several stored themes, two of
\* which are related (similarity >= 0.6) without being similar
NoSimilarThemesWitness ==
    /\ Len(themes) >= 2
    /\ ret.op = "addTheme"
    /\ ret.value = themes[1].id
    /\ \E i, j \in DOMAIN themes :
          /\ i # j
          /\ AtLeast(calculateSimilarity(themes[i].normalizedLabel,
                                         themes[j].normalizedLabel), 6)

\* addTheme(t1) immediately followed by addTheme(t2) returns the same id twice
SameIdTwice(t1, t2) ==
    LET first == addThemeResult(themes, t1.label, t1.category, t1.importance)
        second == addThemeResult(first.themes, t2.label, t2.category, t2.importance)
    IN  first.id = second.id

\* no stored theme is similar to the label
NothingSimilarStored(label) ==
    \A i \in DOMAIN themes : ~Similar(normalizeText(label), themes[i].normalizedLabel)

\* C3 as stated: in every store state reachable by addTheme calls, for
\* all labels L1, L2 whose normalized labels have similarity >= 0.8,
\* addTheme(L1) immediately followed by addTheme(L2) returns the same id.
SimilarLabelsSameId ==
    \A t1, t2 \in ThemeLabelInputs :
        Similar(normalizeText(t1.label), normalizeText(t2.label)) => SameIdTwice(t1, t2)

\* C3 as amended: the same, in the store states in which no stored theme
\* is similar (>= 0.8) to L1 or to L2, the empty store among them.
SimilarLabelsSameIdWhenNew ==
    \A t1, t2 \in ThemeLabelInputs :
        /\ Similar(normalizeText(t1.label), normalizeText(t2.label))
        /\ NothingSimilarStored(t1.label)
        /\ NothingSimilarStored(t2.label)
        => SameIdTwice(t1, t2)

\* a store that holds themes, and two labels with different word sets that
\* are similar to each other and to no stored theme
SimilarLabelsWitness ==
    /\ themes # <<>>
    /\ \E t1, t2 \in ThemeLabelInputs :
          /\ normalizeText(t1.label) # normalizeText(t2.label)
          /\ Similar(normalizeText(t1.label), normalizeText(t2.label))
          /\ NothingSimilarStored(t1.label)
          /\ NothingSimilarStored(t2.label)
          /\ SameIdTwice(t1, t2)

-----------------------------------------------------------------------------
(* Properties of the store under add and link calls (Spec).                *)

\* v is in the set the index keeps for key
In(index, key, v) == key \in DOMAIN index /\ v \in index[key]

\* every id an index mentions, as a key or as a member
Mentioned(forward, reverse) ==
    DOMAIN forward \cup UNION { reverse[k] : k \in DOMAIN reverse }

\* C1  Index symmetry: for every document d and theme t, t is in
\* themesByDocument[d] iff d is in documentsByTheme[t]; and for every
\* definition f, f is in definitionsByDocument[d] iff d is in
\* documentsByDefinition[f].
IndexSymmetry ==
    /\ \A d \in Mentioned(themesByDocument, documentsByTheme) \cup DocIdInputs,
          t \in Mentioned(documentsByTheme, themesByDocument) \cup ThemeIdInputs :
            In(themesByDocument, d, t) <=> In(documentsByTheme, t, d)
    /\ \A d \in Mentioned(definitionsByDocument, documentsByDefinition) \cup DocIdInputs,
          f \in Mentioned(documentsByDefinition, definitionsByDocument)
                    \cup DefinitionIdInputs :
            In(definitionsByDocument, d, f) <=> In(documentsByDefinition, f, d)

\* two documents linked to one theme, one of them also to a definition
IndexSymmetryWitness ==
    /\ \E t \in DOMAIN documentsByTheme : Cardinality(documentsByTheme[t]) >= 2
    /\ \E f \in DOMAIN documentsByDefinition : documentsByDefinition[f] # {}

NotFoundErrors ==
    {"Error: Document or theme not found", "Error: Document or definition not found"}

\* a linkDocumentToTheme call in which docId or themeId is not stored
LinkToThemeWithMissingId ==
    /\ ret'.op = "linkDocumentToTheme"
    /\ \E docId \in DocIdInputs, themeId \in ThemeIdInputs, l \in LinkInputs :
        /\ docId \notin Keys(documents) \/ themeId \notin Keys(themes)
        /\ Call("linkDocumentToTheme",
                linkDocumentToTheme(Store, docId, themeId, l.confidence, l.context))

\* a linkDocumentToDefinition call in which docId or definitionId is not stored
LinkToDefinitionWithMissingId ==
    /\ ret'.op = "linkDocumentToDefinition"
    /\ \E docId \in DocIdInputs, definitionId \in DefinitionIdInputs :
        /\ docId \notin Keys(documents) \/ definitionId \notin Keys(definitions)
        /\ Call("linkDocumentToDefinition",
                linkDocumentToDefinition(Store, docId, definitionId))

\* C6  A link call with an id that is not in the store raises the not-found
\* error and leaves every structure of the store unchanged.
LinkWithMissingIdThrowsUnchanged ==
    [][ (LinkToThemeWithMissingId \/ LinkToDefinitionWithMissingId)
            => (ret'.threw \in NotFoundErrors /\ UNCHANGED storeVars) ]_vars

\* a link call has thrown on a store that holds documents, themes and links
LinkWithMissingIdWitness ==
    /\ ret.op = "linkDocumentToTheme"
    /\ ret.threw \in NotFoundErrors
    /\ documents # <<>>
    /\ themes # <<>>
    /\ LinkCalls > 0

\* C7  The set fields of the entities and the indices are never out of
\* step: doc.themes = themesByDocument[doc.id], doc.definitions =
\* definitionsByDocument[doc.id], theme.documents = documentsByTheme[theme.id]
\* and def.documents = documentsByDefinition[def.id].
EntitySetsMatchIndices ==
    /\ \A i \in DOMAIN documents :
          /\ documents[i].id \in DOMAIN themesByDocument
          /\ documents[i].themes = themesByDocument[documents[i].id]
          /\ documents[i].id \in DOMAIN definitionsByDocument
          /\ documents[i].definitions = definitionsByDocument[documents[i].id]
    /\ \A i \in DOMAIN themes :
          /\ themes[i].id \in DOMAIN documentsByTheme
          /\ themes[i].documents = documentsByTheme[themes[i].id]
    /\ \A i \in DOMAIN definitions :
          /\ definitions[i].id \in DOMAIN documentsByDefinition
          /\ definitions[i].documents = documentsByDefinition[definitions[i].id]

\* a document linked to a theme and to a definition
EntitySetsWitness ==
    \E i \in DOMAIN documents :
        documents[i].themes # {} /\ documents[i].definitions # {}

-----------------------------------------------------------------------------
(* Properties of the queries (Spec).                                       *)

RECURSIVE SumImportance(_, _)
SumImportance(map, ids) ==
    IF ids = {} THEN 0
    ELSE LET id == CHOOSE x \in ids : TRUE
         IN  Get(map, id).importance + SumImportance(map, ids \ {id})

\* the themes / definitions linked to both documents
CommonThemes(a, b) == themesByDocument[a] \cap themesByDocument[b]

CommonDefinitions(a, b) == definitionsByDocument[a] \cap definitionsByDocument[b]

ConnectionStrength(e) == e.connectionStrength

NonIncreasing(list, f(_)) ==
    \A i, j \in DOMAIN list : i < j => f(list[i]) >= f(list[j])

\* C8  Every entry e of getRelatedDocuments(d, m, includeDefinitions) has
\* connectionStrength = sum of the importance of the themes linked to both
\* d and e.documentId + 1.2 * sum of the importance of the definitions
\* linked to both (definitions only if includeDefinitions); its shared
\* theme count plus shared definition count is >= m; it is not d; and the
\* entries are in non-increasing order of connectionStrength.
RelatedDocumentsScored ==
    \A d \in DocIdInputs, m \in MinSharedInputs, includeDefinitions \in BOOLEAN :
        \A result \in getRelatedDocuments(d, m, includeDefinitions) :
            /\ \A i \in DOMAIN result :
                  LET e == result[i]
                      sharedThemes == CommonThemes(d, e.documentId)
                      sharedDefinitions ==
                          IF includeDefinitions THEN CommonDefinitions(d, e.documentId)
                          ELSE {}
                  IN  /\ e.documentId # d
                      /\ e.documentId \in Keys(documents)
                      /\ e.connectionStrength =      \* in hundredths
                            10 * SumImportance(themes, sharedThemes)
                              + 12 * SumImportance(definitions, sharedDefinitions)
                      /\ e.sharedThemes = sharedThemes
                      /\ e.sharedDefinitions = sharedDefinitions
                      /\ Cardinality(sharedThemes) + Cardinality(sharedDefinitions) >= m
            /\ NonIncreasing(result, ConnectionStrength)

\* a query returns two documents, the first related by a theme, the second
\* by a definition, with different strengths; with minSharedThemes = 2 it
\* returns neither
RelatedDocumentsWitness ==
    \E d \in DocIdInputs :
        /\ \E result \in getRelatedDocuments(d, 1, TRUE) :
              /\ Len(result) = 2
              /\ result[1].sharedThemes # {}
              /\ result[2].sharedDefinitions # {}
              /\ result[1].connectionStrength > result[2].connectionStrength
        /\ getRelatedDocuments(d, 2, TRUE) = {<<>>}
        /\ \A result \in getRelatedDocuments(d, 1, FALSE) : Len(result) = 1

\* the two documents share a theme or a definition
Share(a, b) == CommonThemes(a, b) # {} \/ CommonDefinitions(a, b) # {}

Strength(c) == c.strength

\* C10  getDocumentConnectivityMap returns exactly one entry for each
\* unordered pair of distinct stored documents that share a theme or a
\* definition, none for a pair that shares nothing, never both (a,b) and
\* (b,a), in non-increasing order of strength.
ConnectivityMapPairs ==
    \A result \in getDocumentConnectivityMap :
        /\ \A a, b \in Keys(documents) :
              a # b =>
                Cardinality({ i \in DOMAIN result :
                                {result[i].source, result[i].target} = {a, b} })
                  = IF Share(a, b) THEN 1 ELSE 0
        /\ \A i \in DOMAIN result :
              /\ result[i].source # result[i].target
              /\ {result[i].source, result[i].target} \subseteq Keys(documents)
        /\ NonIncreasing(result, Strength)

\* the map holds two pairs of different strength while a third pair of
\* documents shares nothing
ConnectivityMapWitness ==
    /\ \E result \in getDocumentConnectivityMap :
          Len(result) = 2 /\ result[1].strength > result[2].strength
    /\ \E a, b \in Keys(documents) : a # b /\ ~Share(a, b)

-----------------------------------------------------------------------------
(* export, import                                                          *)

\* x || fallback for a number that may be missing: undefined and 0 are falsy
OrNumber(rec, field, fallback) ==
    IF field \in DOMAIN rec /\ rec[field] # 0 THEN rec[field] ELSE fallback

\* Array.from(index.entries()).map(([k, v]) => [k, Array.from(v)]).  The
\* keys of an index were set together with the keys of the entity map
\* (addDocument, addTheme, addDefinition), so they come in the order of map.
IndexEntries(index, map) == [i \in DOMAIN map |-> <<map[i].id, index[map[i].id]>>]

\* The entity arrays hold the entity objects themselves (no copy is made),
\* the index arrays are new arrays.
export(s) ==
    [documents |-> s.documents,
     themes |-> s.themes,
     definitions |-> s.definitions,
     indices |->
        [themesByDocument |-> IndexEntries(s.themesByDocument, s.documents),
         documentsByTheme |-> IndexEntries(s.documentsByTheme, s.themes),
         definitionsByDocument |-> IndexEntries(s.definitionsByDocument, s.documents),
         documentsByDefinition |-> IndexEntries(s.documentsByDefinition, s.definitions)],
     metadata |-> [nextId |-> s.nextId]]

\* new Map(entries)
RECURSIVE NewMap(_, _)
NewMap(entries, map) ==
    IF entries = <<>> THEN map ELSE NewMap(Tail(entries), MapSet(map, Head(entries)))

\* entries.forEach(([k, v]) => index.set(k, new Set(v))) on the cleared index
RECURSIVE RebuildIndex(_, _)
RebuildIndex(entries, index) ==
    IF entries = <<>> THEN index
    ELSE RebuildIndex(Tail(entries), FnSet(index, Head(entries)[1], Head(entries)[2]))

\* as import, but this.nextId is left as it was
import_KeepNextId(s, data) ==
    [store |->
        [s EXCEPT
           !.documents = NewMap(data.documents, <<>>),
           !.themes = NewMap(data.themes, <<>>),
           !.definitions = NewMap(data.definitions, <<>>),
           !.themesByDocument = RebuildIndex(data.indices.themesByDocument, EmptyFn),
           !.documentsByTheme = RebuildIndex(data.indices.documentsByTheme, EmptyFn),
           !.definitionsByDocument =
               RebuildIndex(data.indices.definitionsByDocument, EmptyFn),
           !.documentsByDefinition =
               RebuildIndex(data.indices.documentsByDefinition, EmptyFn)],
     threw |-> "", value |-> "undefined"]

\* linkMetadata and connectionStrengths are not touched
import(s, data) ==
    [store |->
        [s EXCEPT
           !.documents = NewMap(data.documents, <<>>),
           !.themes = NewMap(data.themes, <<>>),
           !.definitions = NewMap(data.definitions, <<>>),
           !.themesByDocument = RebuildIndex(data.indices.themesByDocument, EmptyFn),
           !.documentsByTheme = RebuildIndex(data.indices.documentsByTheme, EmptyFn),
           !.definitionsByDocument =
               RebuildIndex(data.indices.definitionsByDocument, EmptyFn),
           !.documentsByDefinition =
               RebuildIndex(data.indices.documentsByDefinition, EmptyFn),
           !.nextId = OrNumber(data.metadata, "nextId", 1)],
     threw |-> "", value |-> "undefined"]

\* the store of new ThemeStorageSystem()
NewStore ==
    [documents |-> <<>>, themes |-> <<>>, definitions |-> <<>>,
     themesByDocument |-> EmptyFn, documentsByTheme |-> EmptyFn,
     definitionsByDocument |-> EmptyFn, documentsByDefinition |-> EmptyFn,
     linkMetadata |-> EmptyFn, connectionStrengths |-> EmptyFn, nextId |-> 1]

-----------------------------------------------------------------------------
(* The store under add and link calls, export, and import of the exported  *)
(* snapshot or of a snapshot that comes from elsewhere, into the same      *)
(* store or into a new one.                                                *)

\* the store is built with at most MaxSnapshotDocs documents and
\* MaxSnapshotLinks links before it is exported
MaxSnapshotDocs == 2

MaxSnapshotLinks == 2

\* a store with one document linked to one theme
LinkedStore ==
    LET s1 == addDocument(NewStore, <<"Energy report">>, "solar").store
        s2 == addTheme(s1, <<"c">>, "energy", 6).store
    IN  linkDocumentToTheme(s2, DocId(1), ThemeId(<<"c">>), 7, "abstract").store

\* Snapshots of the documented shape that were not taken from this store:
\* the export of another store; the same without the counter; the same with
\* the reverse array of the theme index not naming the document; and the
\* same with the forward array of the theme index not naming the theme.
SnapshotInputs ==
    LET data == export(LinkedStore)
    IN  { data,
          [data EXCEPT !.metadata = [exportedAt |-> "today"]],
          [data EXCEPT !.indices.documentsByTheme = << <<ThemeId(<<"c">>), {}>> >>],
          [data EXCEPT !.indices.themesByDocument = << <<DocId(1), {}>> >>] }

\* an add or link call on the store that has not been exported yet
Build ==
    /\ snapshot = <<>>
    /\ ret.op # "import"
    /\ Next
    /\ nextId' <= MaxSnapshotDocs + 1
    /\ SumFrequency(themes') + SumFrequency(definitions') <= MaxSnapshotLinks

\* const data = export(): the caller keeps the snapshot
Export ==
    /\ ret.op \notin {"import", "export"}
    /\ snapshot' = <<export(Store)>>
    /\ ret' = [op |-> "export", threw |-> "", value |-> "data"]
    /\ UNCHANGED <<storeVars, extractedData, themesBefore, otherVars>>

\* A link made between export and import: the objects of the snapshot's
\* entity arrays are those of the store, so the snapshot shows the link in
\* the entities' fields, and not in its index arrays.
LinkAfterExport ==
    /\ ret.op = "export"
    /\ \E docId \in DocIdInputs, themeId \in ThemeIdInputs, l \in LinkInputs :
          LET r == linkDocumentToTheme(Store, docId, themeId, l.confidence, l.context)
          IN  /\ r.threw = ""
              /\ LinkCalls < MaxLinks
              /\ Call("linkDocumentToTheme", r)
              /\ snapshot' = <<[snapshot[1] EXCEPT !.documents = r.store.documents,
                                                   !.themes = r.store.themes]>>
    /\ UNCHANGED <<extractedData, themesBefore, otherVars>>

\* new ThemeStorageSystem(): the caller goes on with a new store
Construct ==
    /\ snapshot # <<>>
    /\ Call("constructor", [store |-> NewStore, threw |-> "", value |-> "undefined"])
    /\ UNCHANGED <<snapshot, extractedData, themesBefore, otherVars>>

\* import(data) of the snapshot the caller holds or of one from elsewhere
Import ==
    \E data \in SnapshotInputs \cup Range(snapshot) :
        /\ Call("import", import(Store, data))
        /\ UNCHANGED <<snapshot, extractedData, themesBefore, otherVars>>

NextSnapshot ==
    \/ Build
    \/ Export
    \/ LinkAfterExport
    \/ Construct
    \/ Import

SpecSnapshot == Init /\ [][NextSnapshot]_vars

\* the two stores have the same four indices, the same documents, themes
\* and definitions with the same field values, and the same nextId
SameContents(s1, s2) ==
    /\ s1.themesByDocument = s2.themesByDocument
    /\ s1.documentsByTheme = s2.documentsByTheme
    /\ s1.definitionsByDocument = s2.definitionsByDocument
    /\ s1.documentsByDefinition = s2.documentsByDefinition
    /\ s1.documents = s2.documents
    /\ s1.themes = s2.themes
    /\ s1.definitions = s2.definitions
    /\ s1.nextId = s2.nextId

\* C4  Round trip: whenever export() has just returned the snapshot of the
\* store S, a store on which import(snapshot) is run (S itself or a new
\* store) has the same contents in the four index maps, the same documents,
\* themes and definitions with the same field values, and the same nextId
\* as S.
ExportImportRoundTrip ==
    ret.op = "export" =>
        \A target \in {Store, NewStore} :
            SameContents(import(target, snapshot[1]).store, Store)

\* import has put the exported snapshot into a new store: the store has a
\* document linked to a theme and to a definition, and no link metadata
ExportImportWitness ==
    /\ ret.op = "import"
    /\ snapshot # <<>>
    /\ export(Store) = snapshot[1]
    /\ \E d \in DOMAIN themesByDocument : themesByDocument[d] # {}
    /\ \E d \in DOMAIN definitionsByDocument : definitionsByDocument[d] # {}
    /\ nextId = MaxSnapshotDocs + 1
    /\ linkMetadata = EmptyFn

\* C5 as stated: after import(data) of any snapshot of the documented
\* shape, every forward-index entry has its matching reverse-index entry
\* and vice versa.
ImportRestoresIndexSymmetry == ret.op = "import" => IndexSymmetry

-----------------------------------------------------------------------------
(* DocumentConnectionAnalyzer.storeDocuments                               *)

\* x || fallback for a string that may be missing: undefined and '' are falsy
OrString(rec, field, fallback) ==
    IF field \in DOMAIN rec /\ rec[field] # "" THEN rec[field] ELSE fallback

\* the same for a string kept as a sequence of characters
OrText(rec, field, fallback) ==
    IF field \in DOMAIN rec /\ rec[field] # <<>> THEN rec[field] ELSE fallback

\* x || [] for an array that may be missing
OrEmpty(rec, field) == IF field \in DOMAIN rec THEN rec[field] ELSE <<>>

\* linkDocumentToTheme(docId, themeId, confidence || 1.0, context || ''),
\* themeId being what addTheme returned
LinkAdded(added, docId, themeData) ==
    linkDocumentToTheme(added.store, docId, added.value,
                        OrNumber(themeData, "confidence", 10),
                        OrString(themeData, "context", ""))

\* the body of the loop over extractedDoc.main_themes
StoreTheme(s, docId, themeData) ==
    IF "theme" \notin DOMAIN themeData
    THEN [store |-> s, threw |-> "TypeError", value |-> "undefined"]
         \* undefined.toLowerCase()
    ELSE LinkAdded(addTheme(s, themeData.theme,
                            OrString(themeData, "category", "general"),
                            OrNumber(themeData, "importance", 10)),
                   docId, themeData)

\* The loop over extractedDoc.main_themes, r being the outcome of the last
\* call: a call that throws ends it.
RECURSIVE StoreThemes(_, _, _)
StoreThemes(r, docId, main_themes) ==
    IF r.threw # "" \/ main_themes = <<>> THEN r
    ELSE StoreThemes(StoreTheme(r.store, docId, Head(main_themes)), docId,
                     Tail(main_themes))

\* linkDocumentToDefinition(docId, defId), defId being what addDefinition
\* returned
LinkAddedDefinition(added, docId) ==
    linkDocumentToDefinition(added.store, docId, added.value)

\* the body of the loop over extractedDoc.definitions
StoreDefinition(s, docId, defData) ==
    IF \/ "term" \notin DOMAIN defData
       \/ /\ "definition" \notin DOMAIN defData
          /\ ~Has(s.definitions, DefinitionId(normalizeText(defData.term)))
    THEN [store |-> s, threw |-> "TypeError", value |-> "undefined"]
    ELSE LinkAddedDefinition(
            addDefinition(s, defData.term, OrText(defData, "definition", <<>>),
                          OrString(defData, "context", ""),
                          OrNumber(defData, "importance", 10)),
            docId)

\* The loop over extractedDoc.definitions
RECURSIVE StoreDefinitions(_, _, _)
StoreDefinitions(r, docId, defs) ==
    IF r.threw # "" \/ defs = <<>> THEN r
    ELSE StoreDefinitions(StoreDefinition(r.store, docId, Head(defs)), docId, Tail(defs))

\* doc.summary = summary
SetSummary(docs, docId, summary) ==
    [i \in DOMAIN docs |->
        IF docs[i].id = docId THEN [docs[i] EXCEPT !.summary = summary] ELSE docs[i]]

\* const doc = documents.get(docId); doc.summary = extractedDoc.summary || ''
Summarized(r, docId, summary) ==
    IF r.threw # "" THEN r
    ELSE [r EXCEPT !.store.documents = SetSummary(@, docId, summary)]

\* what follows addDocument in the body of the loop over originalDocuments
StoreExtracted(added, extractedDoc) ==
    Summarized(
        StoreDefinitions(
            StoreThemes(added, added.value, OrEmpty(extractedDoc, "main_themes")),
            added.value, OrEmpty(extractedDoc, "definitions")),
        added.value, OrString(extractedDoc, "summary", ""))

\* the body of the loop over originalDocuments, for the i-th of them
\* (counted from 1)
StoreDocument(s, originalDoc, extractedDoc, i) ==
    StoreExtracted(
        addDocument(s,
                    OrText(originalDoc, "title",
                           OrText(originalDoc, "filename", <<"Document ", i>>)),
                    OrString(originalDoc, "content", "")),
        extractedDoc)

\* documentIds.push(docId), unless a call has thrown
Pushed(r, documentIds, docId) ==
    IF r.threw # "" THEN r ELSE [r EXCEPT !.value = Append(documentIds, docId)]

\* The loop over originalDocuments from the i-th on; r is the outcome so
\* far, r.value the documentIds pushed so far.
RECURSIVE StoreEach(_, _, _, _)
StoreEach(r, originalDocuments, extracted, i) ==
    IF r.threw # "" \/ i > Len(originalDocuments) THEN r
    ELSE IF i \notin DOMAIN OrEmpty(extracted, "documents")
    THEN StoreEach(r, originalDocuments, extracted, i + 1)         \* continue
    ELSE StoreEach(Pushed(StoreDocument(r.store, originalDocuments[i],
                                        extracted.documents[i], i),
                          r.value, DocId(r.store.nextId)),
                   originalDocuments, extracted, i + 1)

\* linkDocumentToTheme(documentIds[docIndex - 1], themeId,
\* relationship_strength || 1.0) if docIndex - 1 < documentIds.length
LinkConcept(s, themeId, docIndex, documentIds, sharedConcept) ==
    IF ~(docIndex - 1 < Len(documentIds))
    THEN [store |-> s, threw |-> "", value |-> "undefined"]
    ELSE linkDocumentToTheme(s,
             IF docIndex >= 1 THEN documentIds[docIndex] ELSE <<"undefined">>,
             themeId, OrNumber(sharedConcept, "relationship_strength", 10), "")

\* The loop over sharedConcept.appears_in
RECURSIVE LinkShared(_, _, _, _, _)
LinkShared(r, themeId, appears_in, documentIds, sharedConcept) ==
    IF r.threw # "" \/ appears_in = <<>> THEN r
    ELSE LinkShared(LinkConcept(r.store, themeId, Head(appears_in), documentIds,
                                sharedConcept),
                    themeId, Tail(appears_in), documentIds, sharedConcept)

\* the loop over sharedConcept.appears_in || [], themeId being what addTheme
\* returned
LinkSharedTo(added, sharedConcept, documentIds) ==
    LinkShared(added, added.value, OrEmpty(sharedConcept, "appears_in"), documentIds,
               sharedConcept)

\* the body of the loop over extractedData.shared_concepts
StoreConcept(s, sharedConcept, documentIds) ==
    IF "concept" \notin DOMAIN sharedConcept
    THEN [store |-> s, threw |-> "TypeError", value |-> "undefined"]
    ELSE LinkSharedTo(addTheme(s, sharedConcept.concept,
                               OrString(sharedConcept, "category", "shared"),
                               OrNumber(sharedConcept, "importance", 10)),
                      sharedConcept, documentIds)

\* The loop over extractedData.shared_concepts
RECURSIVE StoreShared(_, _, _)
StoreShared(r, shared_concepts, documentIds) ==
    IF r.threw # "" \/ shared_concepts = <<>> THEN r
    ELSE StoreShared(StoreConcept(r.store, Head(shared_concepts), documentIds),
                     Tail(shared_concepts), documentIds)

\* return documentIds, unless a call has thrown
Returns(r, documentIds) ==
    IF r.threw # "" THEN [r EXCEPT !.value = "undefined"]
    ELSE [r EXCEPT !.value = documentIds]

\* the second loop and the return, stored being the outcome of the first loop
StoreSharedConcepts(stored, extracted) ==
    Returns(StoreShared(stored, OrEmpty(extracted, "shared_concepts"), stored.value),
            stored.value)

storeDocuments(s, originalDocuments, extracted) ==
    StoreSharedConcepts(
        StoreEach([store |-> s, threw |-> "", value |-> <<>>],
                  originalDocuments, extracted, 1),
        extracted)

-----------------------------------------------------------------------------
(* The store under any sequence of storeDocuments calls, from the empty    *)
(* store.                                                                  *)

\* what the Extraction Oracle returned for a theme or a definition
SolarA == [theme |-> <<"A", " ", "b">>, category |-> "general", importance |-> 9,
           confidence |-> 7, context |-> "abstract"]

SolarB == [theme |-> <<"a", "!", "b", " ">>, importance |-> 8]

Wind == [theme |-> <<"c">>, category |-> "energy", importance |-> 6, confidence |-> 5]

WindBare == [theme |-> <<"c">>]

Grid == [term |-> <<"b", ".">>, definition |-> <<"e", " ">>, importance |-> 5]

\* The arguments of storeDocuments.  The two labels of the first theme
\* normalize to "a b" and come with the importance 0.9 and 0.8.
ExtractionInputs ==
    { [originalDocuments |-> << [title |-> <<"A">>, content |-> "solar"] >>,
       extractedData |-> [documents |-> << [main_themes |-> <<SolarA>>,
                                            summary |-> "sun"] >>]],
      [originalDocuments |-> << [filename |-> <<"B">>, content |-> "wind"] >>,
       extractedData |-> [documents |-> << [main_themes |-> <<SolarB, Wind>>,
                                            definitions |-> <<Grid>>] >>]],
      [originalDocuments |-> << [title |-> <<"A">>, content |-> "solar"],
                                [title |-> <<"B">>, content |-> "wind"] >>,
       extractedData |-> [documents |-> << [main_themes |-> <<SolarA>>],
                                           [main_themes |-> <<SolarB>>] >>]],
      [originalDocuments |-> << [title |-> <<"B">>, content |-> "wind"],
                                [title |-> <<"A">>, content |-> "solar"] >>,
       extractedData |-> [documents |-> << [main_themes |-> <<SolarB, WindBare>>],
                                           [main_themes |-> <<SolarA>>,
                                            definitions |-> <<Grid>>] >>]],
      [originalDocuments |-> << [content |-> "grid"], [title |-> <<"B">>] >>,
       extractedData |-> [documents |-> << [definitions |-> <<Grid>>] >>,
                          shared_concepts |->
                             << [concept |-> <<"c">>, importance |-> 6,
                                 appears_in |-> <<1, 2>>] >>]],
      [originalDocuments |-> << [title |-> <<"A">>, content |-> "solar"] >>,
       extractedData |-> [documents |-> << [summary |-> "nothing found"] >>]],
      [originalDocuments |-> << [title |-> <<"B">>, content |-> "wind"] >>,
       extractedData |-> [documents |-> << [main_themes |-> <<WindBare>>] >>]],
      [originalDocuments |-> << [title |-> <<"A">>, content |-> "solar"] >>,
       extractedData |-> [documents |-> << [main_themes |-> <<>>] >>,
                          shared_concepts |->
                             << [concept |-> <<"a", " ", "b">>, importance |-> 5,
                                 relationship_strength |-> 3,
                                 appears_in |-> <<1>>] >>]] }

\* storeDocuments(originalDocuments, extractedData), run to its end
StoreDocuments ==
    \E in \in ExtractionInputs :
        LET r == storeDocuments(Store, in.originalDocuments, in.extractedData)
        IN  /\ r.store.nextId <= MaxDocs + 1
            /\ LinkCallsOn(r.store) <= MaxLinks
            /\ Call("storeDocuments", r)
            /\ extractedData' = <<in.extractedData>>
            /\ themesBefore' = themes
            /\ UNCHANGED <<snapshot, otherVars>>

NextExtract == StoreDocuments

SpecExtract == Init /\ [][NextExtract]_vars

\* the id of the stored theme that the label of an extracted theme resolves to
Resolved(label) == themes[findSimilarTheme(themes, normalizeText(label))].id

\* the importance values the extraction supplied for the theme themeId in
\* the main_themes of its i-th document
Supplied(extracted, i, themeId) ==
    LET main_themes == OrEmpty(extracted.documents[i], "main_themes")
    IN  { OrNumber(main_themes[k], "importance", 10) :
            k \in { n \in DOMAIN main_themes : Resolved(main_themes[n].theme) = themeId } }

\* The last storeDocuments call stored the documents a and b as its i-th
\* and j-th, they share the theme themeId and nothing else, and the
\* extraction supplied one importance for it with a, another one with b.
ExtractedWithDifferentImportance(a, b, themeId) ==
    /\ ret.op = "storeDocuments"
    /\ ret.threw = ""
    /\ \E i, j \in DOMAIN ret.value :
          /\ i # j
          /\ ret.value[i] = a
          /\ ret.value[j] = b
          /\ CommonThemes(a, b) = {themeId}
          /\ CommonDefinitions(a, b) = {}
          /\ Cardinality(Supplied(extractedData[1], i, themeId)) = 1
          /\ Cardinality(Supplied(extractedData[1], j, themeId)) = 1
          /\ Supplied(extractedData[1], i, themeId) # Supplied(extractedData[1], j, themeId)

\* the importance the extraction supplied for themeId with the document d
SuppliedFor(d, themeId) ==
    LET i == CHOOSE n \in DOMAIN ret.value : ret.value[n] = d
    IN  CHOOSE v \in Supplied(extractedData[1], i, themeId) : TRUE

\* the connectionStrength of b in every getRelatedDocuments(a) is
\* hundredths
StrengthIs(a, b, hundredths) ==
    \A result \in getRelatedDocuments(a, 1, TRUE) :
        \E n \in DOMAIN result :
            /\ result[n].documentId = b
            /\ result[n].connectionStrength = hundredths

\* C9 as stated: when two documents were each extracted with a different
\* importance for the same theme, getRelatedDocuments(d) weights the shared
\* theme by the importance supplied for d, the document under query.
WeightIsOwnImportance ==
    \A a, b \in Keys(documents), themeId \in Keys(themes) :
        ExtractedWithDifferentImportance(a, b, themeId)
            => StrengthIs(a, b, 10 * SuppliedFor(a, themeId))

\* the labels and importance values of the extraction in the order of the
\* addTheme calls: the main_themes of each document, then the shared concepts
RECURSIVE SuppliedInOrder(_, _)
SuppliedInOrder(docs, shared_concepts) ==
    IF docs # <<>>
    THEN [k \in DOMAIN OrEmpty(Head(docs), "main_themes") |->
             [label |-> Head(docs).main_themes[k].theme,
              importance |-> OrNumber(Head(docs).main_themes[k], "importance", 10)]]
           \o SuppliedInOrder(Tail(docs), shared_concepts)
    ELSE [k \in DOMAIN shared_concepts |->
             [label |-> shared_concepts[k].concept,
              importance |-> OrNumber(shared_concepts[k], "importance", 10)]]

\* the importance of the first addTheme call of the extraction for themeId
FirstSupplied(extracted, themeId) ==
    LET supplied == SuppliedInOrder(extracted.documents,
                                    OrEmpty(extracted, "shared_concepts"))
        first == CHOOSE k \in DOMAIN supplied :
                    /\ Resolved(supplied[k].label) = themeId
                    /\ \A n \in 1..(k - 1) : Resolved(supplied[n].label) # themeId
    IN  supplied[first].importance

\* in both directions the shared theme weighs what its Theme record holds
WeightIsStoredImportance ==
    \A a, b \in Keys(documents), themeId \in Keys(themes) :
        ExtractedWithDifferentImportance(a, b, themeId)
            => /\ StrengthIs(a, b, 10 * Get(themes, themeId).importance)
               /\ StrengthIs(b, a, 10 * Get(themes, themeId).importance)

\* C9 as amended: getRelatedDocuments weights the shared theme by the
\* importance of its Theme record, from either of the two documents; the
\* record holds the importance of the addTheme call that created the theme
\* (the first one extracted for it), which no later call changes.
WeightIsImportanceOfCreation ==
    (ret.op = "storeDocuments" /\ ret.threw = "")
        => /\ WeightIsStoredImportance
           /\ \A k \in DOMAIN themes :
                 themes[k].importance =
                    IF k \in DOMAIN themesBefore THEN themesBefore[k].importance
                    ELSE FirstSupplied(extractedData[1], themes[k].id)

\* After an earlier call, the last call stored two documents related by
\* one theme alone, for which it supplied two values: the Theme record
\* holds the one that came with b, not the one that came with a.
WeightWitness ==
    \E a, b \in Keys(documents), themeId \in Keys(themes) :
        /\ ExtractedWithDifferentImportance(a, b, themeId)
        /\ Get(themes, themeId).importance # SuppliedFor(a, themeId)
        /\ Get(themes, themeId).importance = SuppliedFor(b, themeId)
        /\ Len(documents) > Len(ret.value)

-----------------------------------------------------------------------------
(* The store under add and link calls with themes of importance 0 to 1,    *)
(* the connection strength of every pair of documents before each call     *)
(* being kept for comparison.                                              *)

\* the store holds at most MaxShareDocs documents and MaxShareLinks links
MaxShareDocs == 2

MaxShareLinks == 4

\* a theme at the lower end of [0,1] and one inside
WeightedThemeInputs ==
    { [label |-> <<"a">>, category |-> "general", importance |-> 0],
      [label |-> <<"b">>, category |-> "general", importance |-> 7] }

WeightedThemeIdInputs ==
    { ThemeId(normalizeText(t.label)) : t \in WeightedThemeInputs }

\* the connectionStrength of b in getRelatedDocuments(a), 0 if b is not in it
StrengthOf(a, b) ==
    LET result == CHOOSE r \in getRelatedDocuments(a, 1, TRUE) : TRUE
        found == { n \in DOMAIN result : result[n].documentId = b }
    IN  IF found = {} THEN 0 ELSE result[CHOOSE n \in found : TRUE].connectionStrength

\* for every pair of stored documents, its strength and whether it shares
\* a theme or a definition
Connections ==
    [p \in Keys(documents) \X Keys(documents) |->
        [strength |-> StrengthOf(p[1], p[2]), shared |-> Share(p[1], p[2])]]

\* the call op with the outcome r, the connections before it being recorded
Observed(op, r) ==
    /\ Call(op, r)
    /\ connectionsBefore' = Connections
    /\ UNCHANGED <<snapshot, extractedData, themesBefore, run, analyzer, semanticVars>>

ShareAddDocument ==
    \E d \in DocInputs :
        /\ nextId <= MaxShareDocs
        /\ Observed("addDocument", addDocument(Store, d.title, d.content))

ShareAddTheme ==
    \E t \in WeightedThemeInputs :
        Observed("addTheme", addTheme(Store, t.label, t.category, t.importance))

ShareAddDefinition ==
    \E d \in DefinitionInputs :
        Observed("addDefinition",
                 addDefinition(Store, d.term, d.definition, d.context, d.importance))

\* the link call goes through, within the bound
Linked(op, r) ==
    /\ r.threw = ""
    /\ LinkCalls < MaxShareLinks
    /\ Observed(op, r)

ShareLinkDocumentToTheme ==
    \E docId \in DocIdInputs, themeId \in WeightedThemeIdInputs, l \in LinkInputs :
        Linked("linkDocumentToTheme",
               linkDocumentToTheme(Store, docId, themeId, l.confidence, l.context))

ShareLinkDocumentToDefinition ==
    \E docId \in DocIdInputs, definitionId \in DefinitionIdInputs :
        Linked("linkDocumentToDefinition",
               linkDocumentToDefinition(Store, docId, definitionId))

NextShare ==
    \/ ShareAddDocument
    \/ ShareAddTheme
    \/ ShareAddDefinition
    \/ ShareLinkDocumentToTheme
    \/ ShareLinkDocumentToDefinition

SpecShare == Init /\ [][NextShare]_vars

\* the strength of the pair before the last call, 0 for a new document
StrengthBefore(a, b) ==
    IF <<a, b>> \in DOMAIN connectionsBefore THEN connectionsBefore[<<a, b>>].strength
    ELSE 0

\* before the last call the pair shared no theme and no definition, and the
\* call has linked a theme that the two now share
FirstSharedTheme(a, b) ==
    /\ ret.op = "linkDocumentToTheme"
    /\ a # b
    /\ <<a, b>> \in DOMAIN connectionsBefore
    /\ ~connectionsBefore[<<a, b>>].shared
    /\ CommonThemes(a, b) # {}

\* no call makes the strength of a pair smaller
NeverDecreases ==
    \A a, b \in Keys(documents) : StrengthOf(a, b) >= StrengthBefore(a, b)

\* C11 as stated: linking a theme of any importance in [0,1] to two
\* documents that shared no theme and no definition makes their connection
\* strength strictly greater than before (0); linking a further shared
\* theme never decreases it.
SharedThemeStrictlyIncreases ==
    /\ \A a, b \in Keys(documents) :
          FirstSharedTheme(a, b) => StrengthOf(a, b) > StrengthBefore(a, b)
    /\ NeverDecreases

\* C11 as amended: the strength becomes strictly greater than before if
\* the importance of the Theme record is greater than 0, and stays 0 if
\* it is 0; no link call decreases the strength of any pair.
SharedThemeIncreasesByImportance ==
    /\ \A a, b \in Keys(documents) :
          FirstSharedTheme(a, b) =>
             /\ StrengthBefore(a, b) = 0
             /\ \A t \in CommonThemes(a, b) :
                   IF Get(themes, t).importance > 0
                   THEN StrengthOf(a, b) > StrengthBefore(a, b)
                   ELSE StrengthOf(a, b) = 0
    /\ NeverDecreases

\* a theme of importance 0.7 has just been linked to the second of two
\* documents that shared nothing: their strength is 0.7
SharedThemeWitness ==
    \E a, b \in Keys(documents) :
        /\ FirstSharedTheme(a, b)
        /\ \E t \in CommonThemes(a, b) : Get(themes, t).importance = 7
        /\ StrengthOf(a, b) = 70
        /\ StrengthBefore(a, b) = 0

-----------------------------------------------------------------------------
(* DocumentConnectionAnalyzer: the configuration and the graph builder.    *)
(* Thresholds and strengths are in hundredths.                             *)

\* this.config of the constructor
DefaultConfig ==
    [minThemeConfidence |-> 70, maxThemesPerDocument |-> 8,
     semanticSimilarityThreshold |-> 70, connectionStrengthThreshold |-> 40,
     enableSemanticAnalysis |-> TRUE, enableHierarchicalThemes |-> TRUE,
     cacheResults |-> TRUE]

\* { ...this.config, ...options }
MergeConfig(config, options) ==
    [k \in DOMAIN config \cup DOMAIN options |->
        IF k \in DOMAIN options THEN options[k] ELSE config[k]]

\* the options of a call: none, a threshold of 0.6, a threshold of 0.9
OptionInputs ==
    { [k \in {} |-> 0],
      [connectionStrengthThreshold |-> 60],
      [connectionStrengthThreshold |-> 90] }

ConfigInputs == { MergeConfig(DefaultConfig, options) : options \in OptionInputs }

\* the ids of a Set in the order of the Map that holds the entities (the
\* model keeps a Set as a set, so the insertion order within it is replaced
\* by the order of the Map)
InMapOrder(map, ids) ==
    LET kept == SelectSeq(map, LAMBDA e : e.id \in ids)
    IN  [i \in DOMAIN kept |-> kept[i].id]

\* getSharedThemes(minDocuments)
getSharedThemes(minDocuments) ==
    LET kept == SelectSeq(themes, LAMBDA theme : Cardinality(theme.documents) >= minDocuments)
        mapped == [i \in DOMAIN kept |->
                     <<Cardinality(kept[i].documents),
                       [id |-> kept[i].id, label |-> kept[i].label,
                        category |-> kept[i].category,
                        importance |-> kept[i].importance,
                        frequency |-> kept[i].frequency,
                        sharedBy |-> InMapOrder(documents, kept[i].documents)]>>]
        sorted == SortDescending(mapped)
    IN  [i \in DOMAIN sorted |-> sorted[i][2]]

\* calculateLinkStrength(docId, themeId), in tenths as confidence and
\* importance are
calculateLinkStrength(docId, themeId) ==
    IF LinkKey(docId, themeId) \in DOMAIN linkMetadata
    THEN linkMetadata[LinkKey(docId, themeId)].confidence
    ELSE IF Has(themes, themeId)
         THEN (IF Get(themes, themeId).importance < 10
               THEN Get(themes, themeId).importance ELSE 10)
         ELSE 5

\* the document nodes
DocumentNodes(documentIds) ==
    [i \in DOMAIN documentIds |->
        [id |-> documentIds[i], type |-> "document",
         label |-> Get(documents, documentIds[i]).title]]

\* the shared-theme nodes
SharedThemeNodes(sharedThemes) ==
    [i \in DOMAIN sharedThemes |->
        [id |-> sharedThemes[i].id, type |-> "shared-theme",
         label |-> sharedThemes[i].label]]

\* theme.sharedBy.forEach(docId => links.push(...)) for every shared theme
RECURSIVE ThemeConnections(_)
ThemeConnections(sharedThemes) ==
    IF sharedThemes = <<>> THEN <<>>
    ELSE LET theme == Head(sharedThemes)
         IN  [i \in DOMAIN theme.sharedBy |->
                 [source |-> theme.sharedBy[i], target |-> theme.id,
                  type |-> "theme-connection",
                  strength |-> 10 * calculateLinkStrength(theme.sharedBy[i], theme.id)]]
             \o ThemeConnections(Tail(sharedThemes))

\* the test with > in place of >=
Qualifies_Above(connection, config) ==
    connection.strength > config.connectionStrengthThreshold

\* connection.strength >= config.connectionStrengthThreshold
Qualifies(connection, config) ==
    connection.strength >= config.connectionStrengthThreshold

\* connections.forEach(connection => { if (...) links.push(...) })
DocumentConnections(connections, config) ==
    LET kept == SelectSeq(connections, LAMBDA c : Qualifies(c, config))
    IN  [i \in DOMAIN kept |->
            [source |-> kept[i].source, target |-> kept[i].target,
             type |-> "document-connection", strength |-> kept[i].strength]]

\* the themes of docId that no other document has
UniqueThemes(docId) ==
    SelectSeq(InMapOrder(themes, themesByDocument[docId]),
              LAMBDA themeId : Cardinality(Get(themes, themeId).documents) = 1)

RECURSIVE UniqueThemeNodes(_)
UniqueThemeNodes(documentIds) ==
    IF documentIds = <<>> THEN <<>>
    ELSE LET unique == UniqueThemes(Head(documentIds))
         IN  [i \in DOMAIN unique |->
                 [id |-> unique[i], type |-> "unique-theme",
                  label |-> Get(themes, unique[i]).label]]
             \o UniqueThemeNodes(Tail(documentIds))

RECURSIVE UniqueThemeConnections(_)
UniqueThemeConnections(documentIds) ==
    IF documentIds = <<>> THEN <<>>
    ELSE LET unique == UniqueThemes(Head(documentIds))
         IN  [i \in DOMAIN unique |->
                 [source |-> Head(documentIds), target |-> unique[i],
                  type |-> "unique-theme-connection", strength |-> 80]]
             \o UniqueThemeConnections(Tail(documentIds))

\* calculateGraphDensity(nodes, links) as <<actualDocLinks, maxPossibleLinks>>,
\* <<0, 1>> for fewer than two document nodes
calculateGraphDensity(nodes, links) ==
    LET nodeCount == Len(SelectSeq(nodes, LAMBDA n : n.type = "document"))
    IN  IF nodeCount < 2 THEN <<0, 1>>
        ELSE <<Len(SelectSeq(links, LAMBDA l : l.type = "document-connection")),
               (nodeCount * (nodeCount - 1)) \div 2>>

\* the object buildOptimizedGraph returns
GraphData(documentIds, sharedThemes, nodes, links) ==
    [threw |-> "", nodes |-> nodes, links |-> links,
     metadata |-> [documentCount |-> Len(documentIds),
                   sharedThemeCount |-> Len(sharedThemes),
                   totalConnections |-> Len(links),
                   graphDensity |-> calculateGraphDensity(nodes, links)]]

\* the graph built from one result of getDocumentConnectivityMap
GraphOf(documentIds, config, sharedThemes, connections) ==
    GraphData(documentIds, sharedThemes,
              DocumentNodes(documentIds) \o SharedThemeNodes(sharedThemes)
                 \o UniqueThemeNodes(documentIds),
              ThemeConnections(sharedThemes)
                 \o DocumentConnections(connections, config)
                 \o UniqueThemeConnections(documentIds))

\* what buildOptimizedGraph(documentIds, config) may return; doc.title of a
\* document that is not stored is a TypeError
buildOptimizedGraph(documentIds, config) ==
    IF \E i \in DOMAIN documentIds : ~Has(documents, documentIds[i])
    THEN { [threw |-> "TypeError", nodes |-> <<>>, links |-> <<>>,
            metadata |-> <<>>] }
    ELSE { GraphOf(documentIds, config, getSharedThemes(2), connections) :
              connections \in getDocumentConnectivityMap }

\* the documents of a run: all stored documents in the order of their ids
AllDocumentIds == [i \in DOMAIN documents |-> documents[i].id]

\* the strength of a pair, from the indices: the importance of the common
\* themes plus 1.2 times the importance of the common definitions
PairStrength(a, b) ==
    10 * SumImportance(themes, CommonThemes(a, b))
       + 12 * SumImportance(definitions, CommonDefinitions(a, b))

DocumentEdges(graph, a, b) ==
    { i \in DOMAIN graph.links :
        /\ graph.links[i].type = "document-connection"
        /\ {graph.links[i].source, graph.links[i].target} = {a, b} }

\* The stores that the graph is built from: at most MaxGraphDocs documents,
\* the themes and the definition of the inputs, at most MaxGraphLinks links
MaxGraphDocs == 3
MaxGraphLinks == 4

GraphAddDocument ==
    \E d \in DocInputs :
        /\ nextId <= MaxGraphDocs
        /\ Call("addDocument", addDocument(Store, d.title, d.content))
        /\ UNCHANGED <<snapshot, extractedData, themesBefore, otherVars>>

GraphAddTheme ==
    \E t \in ThemeInputs :
        /\ ~Has(themes, ThemeId(normalizeText(t.label)))
        /\ Call("addTheme", addTheme(Store, t.label, t.category, t.importance))
        /\ UNCHANGED <<snapshot, extractedData, themesBefore, otherVars>>

GraphAddDefinition ==
    \E d \in DefinitionInputs :
        /\ ~Has(definitions, DefinitionId(normalizeText(d.term)))
        /\ Call("addDefinition",
                addDefinition(Store, d.term, d.definition, d.context, d.importance))
        /\ UNCHANGED <<snapshot, extractedData, themesBefore, otherVars>>

GraphLinkDocumentToTheme ==
    \E docId \in Keys(documents), themeId \in Keys(themes), l \in LinkInputs :
        /\ LinkCalls < MaxGraphLinks
        /\ Call("linkDocumentToTheme",
                linkDocumentToTheme(Store, docId, themeId, l.confidence, l.context))
        /\ UNCHANGED <<snapshot, extractedData, themesBefore, otherVars>>

GraphLinkDocumentToDefinition ==
    \E docId \in Keys(documents), definitionId \in Keys(definitions) :
        /\ LinkCalls < MaxGraphLinks
        /\ Call("linkDocumentToDefinition",
                linkDocumentToDefinition(Store, docId, definitionId))
        /\ UNCHANGED <<snapshot, extractedData, themesBefore, otherVars>>

NextGraph ==
    \/ GraphAddDocument
    \/ GraphAddTheme
    \/ GraphAddDefinition
    \/ GraphLinkDocumentToTheme
    \/ GraphLinkDocumentToDefinition

SpecGraph == Init /\ [][NextGraph]_vars

\* C12  For every pair of distinct stored documents that has a connection,
\* buildOptimizedGraph emits exactly one 'document-connection' edge if the
\* pair's strength is >= config.connectionStrengthThreshold and none if it
\* is below; a pair without a connection has no edge; every such edge joins
\* two distinct stored documents and carries the pair's strength.
ThresholdPruning ==
    \A config \in ConfigInputs :
        \A graph \in buildOptimizedGraph(AllDocumentIds, config) :
            /\ \A a, b \in Keys(documents) :
                  a # b =>
                    Cardinality(DocumentEdges(graph, a, b))
                      = IF Share(a, b)
                           /\ PairStrength(a, b) >= config.connectionStrengthThreshold
                        THEN 1 ELSE 0
            /\ \A i \in DOMAIN graph.links :
                  graph.links[i].type = "document-connection" =>
                      /\ graph.links[i].source # graph.links[i].target
                      /\ {graph.links[i].source, graph.links[i].target}
                            \subseteq Keys(documents)
                      /\ graph.links[i].strength
                            = PairStrength(graph.links[i].source, graph.links[i].target)

\* with the threshold 0.6 one pair of strength exactly 0.6 has its edge,
\* and with the threshold 0.9 the same pair has none while a pair of strength
\* 0.9 keeps its edge
ThresholdPruningWitness ==
    \E a, b, c, d \in Keys(documents) :
        /\ a # b /\ c # d
        /\ Share(a, b) /\ PairStrength(a, b) = 60
        /\ Share(c, d) /\ PairStrength(c, d) = 90
        /\ \A graph \in buildOptimizedGraph(AllDocumentIds,
                           MergeConfig(DefaultConfig, [connectionStrengthThreshold |-> 60])) :
              Cardinality(DocumentEdges(graph, a, b)) = 1
        /\ \A graph \in buildOptimizedGraph(AllDocumentIds,
                           MergeConfig(DefaultConfig, [connectionStrengthThreshold |-> 90])) :
              /\ DocumentEdges(graph, a, b) = {}
              /\ Cardinality(DocumentEdges(graph, c, d)) = 1

\* every importance stored is in [0,1] (tenths)
ImportancesInUnitInterval ==
    /\ \A i \in DOMAIN themes : themes[i].importance \in 0..10
    /\ \A i \in DOMAIN definitions : definitions[i].importance \in 0..10

\* C13  Whenever all theme and definition importances are in [0,1], the
\* strength of every connection of getDocumentConnectivityMap and of every
\* 'document-connection' edge of the graph lies in [0,1] (0..100 hundredths).
StrengthIsUnitScore ==
    ImportancesInUnitInterval =>
        /\ \A result \in getDocumentConnectivityMap :
              \A i \in DOMAIN result : result[i].strength \in 0..100
        /\ \A graph \in buildOptimizedGraph(AllDocumentIds, DefaultConfig) :
              \A i \in DOMAIN graph.links :
                  graph.links[i].type = "document-connection" =>
                      graph.links[i].strength \in 0..100

-----------------------------------------------------------------------------
(* analyzeThemeClusters (SpecClusters).  A strength is the pair             *)
(* <<commonDocs.size, totalDocs.size>>, <<0, 1>> for the number 0.          *)

\* the breadth-first walk of buildThemeCluster from the state
\* <<cluster, toProcess, processed>>: <<cluster, processed>> at the end.
\* The related ids are visited in the order of the theme Map.
RECURSIVE ThemeClusterWalk(_, _, _)
ThemeClusterWalk(cluster, toProcess, processed) ==
    IF toProcess = <<>> THEN <<cluster, processed>>
    ELSE LET currentId == Head(toProcess)
             added == Get(themes, currentId).relatedThemes \ cluster
         IN  ThemeClusterWalk(cluster \cup added,
                              Tail(toProcess) \o InMapOrder(themes, added),
                              processed \cup {currentId})

\* as buildThemeCluster, but only the themes related to the start are taken
buildThemeCluster_Neighbours(startThemeId, processed) ==
    <<{startThemeId} \cup Get(themes, startThemeId).relatedThemes,
      processed \cup {startThemeId}>>

buildThemeCluster(startThemeId, processed) ==
    ThemeClusterWalk({startThemeId}, <<startThemeId>>, processed)

\* this.documentsByTheme.get(id) || new Set()
DocumentsOfTheme(id) ==
    IF id \in DOMAIN documentsByTheme THEN documentsByTheme[id] ELSE {}

\* the intersection of the document sets of the themes
findCommonDocuments(themeIds) ==
    IF themeIds = {} THEN {}
    ELSE { d \in UNION { DocumentsOfTheme(id) : id \in themeIds } :
              \A id \in themeIds : d \in DocumentsOfTheme(id) }

\* as calculateClusterStrength, dividing by the number of themes
calculateClusterStrength_PerTheme(themeIds) ==
    <<Cardinality(findCommonDocuments(themeIds)), Cardinality(themeIds)>>

calculateClusterStrength(themeIds) ==
    LET commonDocs == findCommonDocuments(themeIds)
        totalDocs == UNION { DocumentsOfTheme(id) : id \in themeIds }
    IN  IF Cardinality(totalDocs) > 0
        THEN <<Cardinality(commonDocs), Cardinality(totalDocs)>>
        ELSE <<0, 1>>

\* clusters.sort((a, b) => b.strength - a.strength): stable, descending
RECURSIVE InsertByStrength(_, _)
InsertByStrength(sorted, c) ==
    IF sorted = <<>> THEN <<c>>
    ELSE IF Head(sorted).strength[1] * c.strength[2]
               >= c.strength[1] * Head(sorted).strength[2]
         THEN <<Head(sorted)>> \o InsertByStrength(Tail(sorted), c)
         ELSE <<c>> \o sorted

RECURSIVE SortClusters(_)
SortClusters(list) ==
    IF list = <<>> THEN <<>>
    ELSE InsertByStrength(SortClusters(SubSeq(list, 1, Len(list) - 1)),
                          list[Len(list)])

\* clusters.set(clusterId, {...}) when cluster.size > 1
WithCluster(clusters, cluster) ==
    IF Cardinality(cluster) > 1
    THEN Append(clusters,
                [id |-> <<"cluster-", Len(clusters) + 1>>,
                 themes |-> cluster,
                 commonDocuments |-> findCommonDocuments(cluster),
                 strength |-> calculateClusterStrength(cluster)])
    ELSE clusters

\* the loop over this.themes from the i-th theme on
RECURSIVE ClusterLoop(_, _, _)
ClusterLoop(i, processed, clusters) ==
    IF i > Len(themes) THEN SortClusters(clusters)
    ELSE IF themes[i].id \in processed
         THEN ClusterLoop(i + 1, processed, clusters)
         ELSE LET walk == buildThemeCluster(themes[i].id, processed)
              IN  ClusterLoop(i + 1, walk[2], WithCluster(clusters, walk[1]))

analyzeThemeClusters == ClusterLoop(1, {}, <<>>)

MaxClusterDocs == 2
MaxClusterLinks == 2

\* "a b c" and "a b d" are unrelated (2/4) and both related to "a b c d"
\* (3/4); "x y z" is related to none; no two are similar (0.8)
ClusterLabelInputs ==
    { <<"a", " ", "b", " ", "c">>, <<"a", " ", "b", " ", "d">>,
      <<"a", " ", "b", " ", "c", " ", "d">>, <<"x", " ", "y", " ", "z">> }

ClusterThemeIdInputs == { ThemeId(normalizeText(l)) : l \in ClusterLabelInputs }

ClusterAddDocument ==
    \E d \in DocInputs :
        /\ nextId <= MaxClusterDocs
        /\ Call("addDocument", addDocument(Store, d.title, d.content))
        /\ UNCHANGED <<snapshot, extractedData, themesBefore, otherVars>>

ClusterAddTheme ==
    \E l \in ClusterLabelInputs :
        /\ Call("addTheme", addTheme(Store, l, "general", 5))
        /\ UNCHANGED <<snapshot, extractedData, themesBefore, otherVars>>

ClusterLinkDocumentToTheme ==
    \E docId \in DocIdInputs, themeId \in ClusterThemeIdInputs, l \in LinkInputs :
        LET r == linkDocumentToTheme(Store, docId, themeId, l.confidence, l.context)
        IN  /\ r.threw = ""
            /\ LinkCalls < MaxClusterLinks
            /\ Call("linkDocumentToTheme", r)
            /\ UNCHANGED <<snapshot, extractedData, themesBefore, otherVars>>

NextClusters ==
    \/ ClusterAddDocument
    \/ ClusterAddTheme
    \/ ClusterLinkDocumentToTheme

SpecClusters == Init /\ [][NextClusters]_vars

\* a and b are related themes, in one direction or the other
Related(a, b) ==
    b \in Get(themes, a).relatedThemes \/ a \in Get(themes, b).relatedThemes

\* the themes joined to a theme of S by a path of at most n relations
RECURSIVE Reach(_, _)
Reach(S, n) ==
    IF n = 0 THEN S
    ELSE Reach(S \cup { b \in Keys(themes) : \E a \in S : Related(a, b) }, n - 1)

Component(a) == Reach({a}, Len(themes))

ClustersHolding(result, t) == { i \in DOMAIN result : t \in result[i].themes }

\* the documents of every theme of the cluster, by the themes' own sets
InEveryTheme(cluster) ==
    { d \in Keys(documents) : \A t \in cluster : d \in Get(themes, t).documents }

InSomeTheme(cluster) ==
    { d \in Keys(documents) : \E t \in cluster : d \in Get(themes, t).documents }

\* C14  analyzeThemeClusters returns exactly the connected components of
\* size >= 2 of the relatedThemes graph: a theme is in exactly one cluster
\* if its component has two themes or more and in none otherwise, every
\* cluster is the component of each of its themes, its commonDocuments is
\* the intersection of its themes' document sets and its strength is
\* |commonDocuments| / |union of those sets|, 0 when the union is empty.
ClustersAreComponents ==
    LET result == analyzeThemeClusters
    IN  /\ \A t \in Keys(themes) :
              Cardinality(ClustersHolding(result, t))
                 = IF Cardinality(Component(t)) >= 2 THEN 1 ELSE 0
        /\ \A i \in DOMAIN result :
              /\ \A t \in result[i].themes : result[i].themes = Component(t)
              /\ Cardinality(result[i].themes) >= 2
              /\ result[i].commonDocuments = InEveryTheme(result[i].themes)
              /\ result[i].strength =
                    IF InSomeTheme(result[i].themes) = {} THEN <<0, 1>>
                    ELSE <<Cardinality(InEveryTheme(result[i].themes)),
                           Cardinality(InSomeTheme(result[i].themes))>>

\* one cluster of three themes, two of which are not related to each other,
\* whose documents are each in one theme only, and a theme in no cluster
ClustersWitness ==
    LET result == analyzeThemeClusters
    IN  /\ Len(result) = 1
        /\ Cardinality(result[1].themes) = 3
        /\ \E a, b \in result[1].themes : a # b /\ ~Related(a, b)
        /\ result[1].commonDocuments = {}
        /\ result[1].strength = <<0, 2>>
        /\ \E t \in Keys(themes) : ClustersHolding(result, t) = {}

-----------------------------------------------------------------------------
(* processDocuments (SpecPipeline).  The call is cut where it awaits: the   *)
(* start up to the request to the Extraction Oracle, the response up to    *)
(* the end of storeDocuments, the semantic analysis, the graph, the        *)
(* report.  An error message is a tuple of its parts, <<>> for none.       *)

\* processDocuments is called at most MaxRuns times, on a store that holds
\* at most MaxStored documents with those of the call
MaxRuns == 2
MaxStored == 3

\* an element of the documents argument that is not an object
NotAnObject == [primitive |-> "string"]

\* contents that are arrays of strings, not strings: they have slice and
\* length, and neither trim nor toLowerCase
ArrayContents == {"[sun]", "[air]"}

IsString(content) == content \notin ArrayContents

\* x.title / x.content is truthy
HasTitle(doc) == "title" \in DOMAIN doc /\ doc.title # <<>>

HasContent(doc) == "content" \in DOMAIN doc /\ doc.content # ""

\* the validation that accepts any object
FirstInvalid_ObjectsOnly(docs) ==
    LET bad == { i \in DOMAIN docs : "primitive" \in DOMAIN docs[i] }
    IN  IF bad = {} THEN 0 ELSE CHOOSE i \in bad : \A j \in bad : i <= j

\* the first element the validation loop rejects, 0 if none
FirstInvalid(docs) ==
    LET bad == { i \in DOMAIN docs :
                    \/ "primitive" \in DOMAIN docs[i]
                    \/ ~HasContent(docs[i]) /\ ~HasTitle(docs[i]) }
    IN  IF bad = {} THEN 0 ELSE CHOOSE i \in bad : \A j \in bad : i <= j

\* what the validation throws
ValidationError(docs) ==
    LET i == FirstInvalid(docs)
    IN  IF Len(docs) = 0 THEN <<"No documents provided for analysis">>
        ELSE IF i = 0 THEN <<>>
        ELSE IF "primitive" \in DOMAIN docs[i]
             THEN <<"Document ", i, " is invalid - must be an object with title and content">>
             ELSE <<"Document ", i, " is missing both title and content">>

\* generateAnalysisPrompt reads doc.content.slice(0, 4000) of every document
PromptError(docs) ==
    IF \E i \in DOMAIN docs : "content" \notin DOMAIN docs[i]
    THEN <<"Cannot read properties of undefined (reading 'slice')">>
    ELSE <<>>

\* what the Extraction Oracle may answer: no answer (fetch rejects), an
\* HTTP error, an answer without content, content without a JSON object,
\* content with a broken JSON object, content with a JSON object
ExtractionFailures == {"network", "http", "empty", "text", "badjson"}

\* what extractDocumentData throws for an answer of the Oracle
ExtractionError(kind) ==
    CASE kind = "network" -> <<"Failed to fetch">>
      [] kind = "http"    -> <<"OpenAI API error: ", "Unknown error">>
      [] kind = "empty"   -> <<"No content in LLM response">>
      [] kind = "text"    -> <<"Failed to parse LLM response: ",
                               "No JSON found in LLM response">>
      [] kind = "badjson" -> <<"Failed to parse LLM response: ", "Unexpected token">>
      [] OTHER            -> <<>>

\* the JSON objects of the Oracle: two documents sharing the theme "a b",
\* one document, and a theme without its label
ExtractedInputs ==
    { [documents |-> << [main_themes |-> <<SolarA, Wind>>],
                        [main_themes |-> <<SolarB>>, definitions |-> <<Grid>>] >>],
      [documents |-> << [main_themes |-> <<Wind>>, summary |-> "sun"] >>],
      [documents |-> << [main_themes |-> << Wind, [category |-> "energy"] >>] >>] }

\* the documents argument: empty, an element that is not an object, an
\* element with neither title nor content, one document, two documents, two
\* documents whose contents are arrays, a document with a title only
DocumentsInputs ==
    { <<>>,
      << NotAnObject >>,
      << [title |-> <<"A">>, content |-> "solar"],
         [filename |-> <<"B">>, content |-> ""] >>,
      << [title |-> <<"A">>, content |-> "solar"] >>,
      << [title |-> <<"A">>, content |-> "solar"],
         [title |-> <<"B">>, content |-> "wind"] >>,
      << [title |-> <<"A">>, content |-> "[sun]"],
         [title |-> <<"B">>, content |-> "[air]"] >>,
      << [title |-> <<"B">>] >> }

\* the options argument
RunOptionInputs == { [k \in {} |-> 0], [enableSemanticAnalysis |-> FALSE] }

\* the locals of a call that starts
NewRun(n, docs) ==
    [IdleRun EXCEPT !.number = n, !.pc = "validate", !.documents = docs,
                    !.stages = <<"validate">>, !.storeBefore = Store,
                    !.analyzerBefore = analyzer]

\* The catch block of processDocuments.  The object it returns is built
\* from config, a const of the try block that the catch block cannot see:
\* reading it throws a ReferenceError out of the catch block, and the call
\* rejects with it.
Catch(r, message) ==
    [r EXCEPT !.pc = "done", !.failedIn = r.stages[Len(r.stages)],
              !.error = message, !.outcome = "raised",
              !.result = <<"ReferenceError: config is not defined">>]

Enter(r, stage) == [r EXCEPT !.pc = stage, !.stages = Append(@, stage)]

\* the call from its start to the request sent to the Extraction Oracle
Started(n, docs, options) ==
    LET r == NewRun(n, docs)
        merged == Enter([r EXCEPT !.config = <<MergeConfig(DefaultConfig, options)>>],
                        "extract")
    IN  IF ValidationError(docs) # <<>> THEN Catch(r, ValidationError(docs))
        ELSE IF PromptError(docs) # <<>> THEN Catch(merged, PromptError(docs))
        ELSE [merged EXCEPT !.extractionCalls = @ + 1]

ProcessDocuments ==
    \E docs \in DocumentsInputs, options \in RunOptionInputs :
        /\ run.pc \in {"idle", "done"}
        /\ run.number < MaxRuns
        /\ Len(documents) + Len(docs) <= MaxStored
        /\ run' = Started(run.number + 1, docs, options)
        /\ UNCHANGED <<storeVars, ret, snapshot, extractedData, themesBefore,
                       connectionsBefore, semanticVars, analyzer>>

\* the catch block of performSemanticAnalysis
EmptySemanticData == [semanticGroups |-> <<>>, hierarchicalStructure |-> <<>>]

\* The cosine, in hundredths, that the vectors of the Embedding Oracle have
\* for any two different texts: the texts are unrelated or alike.
OracleSimilarityInputs == {0, 80}

\* isMoreGeneral(text1, text2)
isMoreGeneral(text1, text2) ==
    Len(split(text1)) < Len(split(text2)) /\ Includes(text2, text1)

\* buildThemeHierarchy: the parent of the i-th theme is the first theme
\* that is more general, if the cosine is above 0; 0 stands for no parent
ParentOf(i, similarity) ==
    LET more == { j \in DOMAIN themes :
                    j # i /\ isMoreGeneral(themes[j].label, themes[i].label) }
    IN  IF similarity > 0 /\ more # {}
        THEN CHOOSE j \in more : \A k \in more : j <= k
        ELSE 0

buildThemeHierarchy(similarity) ==
    LET roots == SelectSeq([i \in DOMAIN themes |-> i],
                           LAMBDA i : ParentOf(i, similarity) = 0)
    IN  [root |-> [n \in DOMAIN roots |-> themes[roots[n]].label],
         children |-> { <<themes[ParentOf(i, similarity)].label, themes[i].label>> :
                          i \in { k \in DOMAIN themes : ParentOf(k, similarity) # 0 } }]

\* clusterThemesBySemantic: with one cosine for every pair the themes are
\* all in one cluster (>= 0.6) or in none
clusterThemesBySemantic(similarity) ==
    IF similarity >= 60 /\ Len(themes) > 1
    THEN << [themes |-> [i \in DOMAIN themes |-> themes[i].label],
             averageSimilarity |-> similarity, category |-> "general"] >>
    ELSE <<>>

\* analyzeThemeSemantics(allThemes), for allThemes not empty
analyzeThemeSemantics(similarity) ==
    [semanticGroups |-> clusterThemesBySemantic(similarity),
     hierarchicalStructure |-> buildThemeHierarchy(similarity)]

\* analyzeDocumentRelationship(doc1, doc2) throws: both contents are truthy
\* and one of them is not a string, so that trim (getEmbeddings) and then
\* toLowerCase (the fallback of calculateSemanticSimilarity) are missing
RelationshipThrows(doc1, doc2) ==
    /\ doc1.content # "" /\ doc2.content # ""
    /\ ~IsString(doc1.content) \/ ~IsString(doc2.content)

\* what is kept of analyzeDocumentRelationship(doc1, doc2)
analyzeDocumentRelationship(doc1, doc2, similarity) ==
    [contentSimilarity |->
        IF doc1.content = "" \/ doc2.content = "" THEN 0
        ELSE IF doc1.content = doc2.content THEN 100 ELSE similarity,
     exactThemeMatches |-> Cardinality(doc1.themes \cap doc2.themes)]

\* the getEmbeddings calls of analyzeDocumentRelationship that have texts:
\* the themes of the two documents, and the two contents.  Each sends at
\* most one request to the Embedding Oracle.
RelationshipCalls(doc1, doc2) ==
    (IF doc1.themes \cup doc2.themes # {} THEN 1 ELSE 0)
      + (IF doc1.content # "" /\ doc2.content # "" /\ ~RelationshipThrows(doc1, doc2)
         THEN 1 ELSE 0)

\* the pairs <<i, j>>, i < j, in the order of the two loops
PairsInOrder(n) ==
    LET Before(p, q) == p[1] < q[1] \/ (p[1] = q[1] /\ p[2] < q[2])
        pairs == { p \in (1..n) \X (1..n) : p[1] < p[2] }
    IN  IF pairs = {} THEN <<>>
        ELSE CHOOSE o \in Orders(pairs) :
                \A a, b \in DOMAIN o : a < b => Before(o[a], o[b])

\* `${documentIds[i]}-${documentIds[j]}`
RelationshipKey(id1, id2) == id1 \o <<"-">> \o id2

\* the loops over the pairs of documentIds, from the state a =
\* [relationships, calls, threw]
RECURSIVE AnalyzePairs(_, _, _, _)
AnalyzePairs(pairs, ids, similarity, a) ==
    IF pairs = <<>> \/ a.threw THEN a
    ELSE LET doc1 == Get(documents, ids[Head(pairs)[1]])
             doc2 == Get(documents, ids[Head(pairs)[2]])
         IN  AnalyzePairs(Tail(pairs), ids, similarity,
                IF RelationshipThrows(doc1, doc2)
                THEN [a EXCEPT !.threw = TRUE,
                               !.calls = @ + RelationshipCalls(doc1, doc2)]
                ELSE [a EXCEPT !.calls = @ + RelationshipCalls(doc1, doc2),
                               !.relationships =
                                   FnSet(@, RelationshipKey(doc1.id, doc2.id),
                                         analyzeDocumentRelationship(doc1, doc2, similarity))])

\* catch (error) { this.themeSemanticData = {...} }, with nothing done
SemanticCatch_Nothing(an) == an

\* catch (error) { this.themeSemanticData = { semanticGroups: [],
\* hierarchicalStructure: {} } }
SemanticCatch(an) == [an EXCEPT !.themeSemanticData = <<EmptySemanticData>>]

\* the analyzer and the number of getEmbeddings calls after
\* performSemanticAnalysis(documentIds, extractedData)
performSemanticAnalysis(an, documentIds, similarity) ==
    LET pairs == AnalyzePairs(PairsInOrder(Len(documentIds)), documentIds, similarity,
                              [relationships |-> an.documentRelationships,
                               calls |-> 0, threw |-> FALSE])
    IN  IF pairs.threw
        THEN [analyzer |-> SemanticCatch([an EXCEPT !.documentRelationships =
                                                          pairs.relationships]),
              calls |-> pairs.calls, threw |-> TRUE]
        ELSE [analyzer |-> [an EXCEPT !.documentRelationships = pairs.relationships,
                                      !.themeSemanticData =
                                          IF Len(themes) > 0
                                          THEN <<analyzeThemeSemantics(similarity)>>
                                          ELSE @],
              calls |-> pairs.calls + (IF Len(themes) > 0 THEN 1 ELSE 0),
              threw |-> FALSE]

\* the semantic analysis, whatever the configuration
AfterPopulate_Semantic(r) == "semantic"

\* the stage that comes after storeDocuments
AfterPopulate(r) ==
    IF r.config[1].enableSemanticAnalysis THEN "semantic" ELSE "graph"

\* the extraction fails: extractDocumentData throws
ExtractionFails ==
    \E kind \in ExtractionFailures :
        /\ run' = Catch(run, ExtractionError(kind))
        /\ UNCHANGED <<storeVars, analyzer>>

\* the store after a storeDocuments that threw, had the catch block undone
\* what the call wrote
AfterStore_RolledBack(before, r) == IF r.threw # "" THEN before ELSE r.store

\* the store after storeDocuments: the catch block of processDocuments does
\* not touch it
AfterStore(before, r) == r.store

\* the extraction returns a JSON object, and storeDocuments runs on it
Populate ==
    \E data \in ExtractedInputs :
        LET r == storeDocuments(Store, run.documents, data)
            populating == Enter([run EXCEPT !.extractedData = <<data>>], "populate")
        IN  /\ Becomes(AfterStore(Store, r))
            /\ run' = IF r.threw # ""
                      THEN Catch(populating, <<r.threw>>)
                      ELSE [populating EXCEPT !.documentIds = r.value]
            /\ UNCHANGED analyzer

ExtractionResponse ==
    /\ run.pc = "extract"
    /\ ExtractionFails \/ Populate
    /\ UNCHANGED <<ret, snapshot, extractedData, themesBefore, connectionsBefore, semanticVars>>

SemanticAnalysis ==
    /\ run.pc = "populate"
    /\ AfterPopulate(run) = "semantic"
    /\ \E similarity \in OracleSimilarityInputs :
          LET r == performSemanticAnalysis(analyzer, run.documentIds, similarity)
          IN  /\ analyzer' = r.analyzer
              /\ run' = [Enter(run, "semantic") EXCEPT !.embeddingCalls = @ + r.calls,
                                                       !.semanticThrew = r.threw]
    /\ UNCHANGED <<storeVars, ret, snapshot, extractedData, themesBefore,
                   connectionsBefore, semanticVars>>

BuildGraph ==
    /\ \/ run.pc = "semantic"
       \/ run.pc = "populate" /\ AfterPopulate(run) = "graph"
    /\ \E graph \in buildOptimizedGraph(run.documentIds, run.config[1]) :
          run' = IF graph.threw # ""
                 THEN Catch(Enter(run, "graph"), <<graph.threw>>)
                 ELSE [Enter(run, "graph") EXCEPT !.graphData = <<graph>>]
    /\ UNCHANGED <<storeVars, ret, snapshot, extractedData, themesBefore,
                   connectionsBefore, semanticVars, analyzer>>

\* themeSemanticData?.field || fallback
SemanticField(an, field) ==
    IF an.themeSemanticData = <<>> THEN <<>> ELSE an.themeSemanticData[1][field]

\* findIsolatedDocuments(documentIds)
findIsolatedDocuments(documentIds) ==
    SelectSeq(documentIds,
              LAMBDA docId : \A list \in getRelatedDocuments(docId, 1, TRUE) : list = <<>>)

generateAnalysisReport(an, documentIds, graphData) ==
    [overview |-> [totalDocuments |-> Len(documentIds),
                   totalThemes |-> Len(themes),
                   totalDefinitions |-> Len(definitions),
                   sharedThemes |-> Len(getSharedThemes(2))],
     connectivity |-> [graphDensity |-> graphData.metadata.graphDensity,
                       isolatedDocuments |-> findIsolatedDocuments(documentIds)],
     themeAnalysis |-> [themeClusters |-> SemanticField(an, "semanticGroups"),
                        hierarchicalStructure |->
                            SemanticField(an, "hierarchicalStructure")]]

\* the report, the cache, the history and the object returned
GenerateReport ==
    /\ run.pc = "graph"
    /\ analyzer' =
          [analyzer EXCEPT
             !.processingCache = IF run.config[1].cacheResults
                                 THEN Append(@, run.number) ELSE @,
             !.analysisHistory = Append(@, [id |-> run.number,
                                            documentCount |-> Len(run.documents)])]
    /\ run' = [Enter(run, "report") EXCEPT
                 !.pc = "done", !.outcome = "returned",
                 !.result = << [success |-> TRUE,
                                processingId |-> run.number,
                                documentIds |-> run.documentIds,
                                graphData |-> run.graphData[1],
                                analysisReport |->
                                    generateAnalysisReport(analyzer, run.documentIds,
                                                           run.graphData[1])] >>]
    /\ UNCHANGED <<storeVars, ret, snapshot, extractedData, themesBefore,
                   connectionsBefore, semanticVars>>

NextPipeline ==
    \/ ProcessDocuments
    \/ ExtractionResponse
    \/ SemanticAnalysis
    \/ BuildGraph
    \/ GenerateReport

SpecPipeline == Init /\ [][NextPipeline]_vars

-----------------------------------------------------------------------------
(* Properties of processDocuments (SpecPipeline).                          *)

\* the input fails validation: no documents, an element that is not an
\* object, or an element with neither title nor content
InvalidInput(docs) ==
    \/ docs = <<>>
    \/ \E i \in DOMAIN docs :
          \/ "primitive" \in DOMAIN docs[i]
          \/ ~HasTitle(docs[i]) /\ ~HasContent(docs[i])

\* C15  A processDocuments call whose input fails validation makes no call
\* to the Extraction Oracle and none to the Embedding Oracle, leaves the
\* Entity Store as it found it, and is over.
InvalidInputCallsNoOracle ==
    (run.number > 0 /\ InvalidInput(run.documents)) =>
        /\ run.extractionCalls = 0
        /\ run.embeddingCalls = 0
        /\ Store = run.storeBefore
        /\ run.pc = "done"
        /\ run.stages = <<"validate">>

\* a call with an element that has neither title nor content has failed
\* on a store that an earlier call has filled
InvalidInputWitness ==
    /\ run.number = 2
    /\ Len(run.documents) = 2
    /\ InvalidInput(run.documents)
    /\ run.failedIn = "validate"
    /\ Len(documents) > 0
    /\ Len(analyzer.analysisHistory) = 1

\* C16  Whenever a stage of processDocuments fails, the call returns an
\* object with success = false, a message, the original error and the
\* diagnostic context (the number of documents and the active
\* configuration), without graph data: it does not raise.
FailureObjectReturned ==
    (run.pc = "done" /\ run.failedIn # "") =>
        /\ run.outcome = "returned"
        /\ run.result[1].success = FALSE
        /\ run.result[1].error # <<>>
        /\ run.result[1].originalError = run.error
        /\ run.result[1].debugInfo.documentsCount = Len(run.documents)
        /\ <<run.result[1].debugInfo.config>> = run.config
        /\ "graphData" \notin DOMAIN run.result[1]

SixStages == <<"validate", "extract", "populate", "semantic", "graph", "report">>

\* C17  When the semantic analysis of a call fails, the analyzer holds the
\* empty semantic data, building the graph does not throw, and the call, once over,
\* has gone through Build Graph and Generate Report and returned success =
\* true with a report whose themeClusters and hierarchicalStructure are
\* empty.
SemanticFailureDegrades ==
    run.semanticThrew =>
        /\ analyzer.themeSemanticData = <<EmptySemanticData>>
        /\ run.failedIn = ""
        /\ run.pc = "semantic" =>
              \A graph \in buildOptimizedGraph(run.documentIds, run.config[1]) :
                  graph.threw = ""
        /\ run.pc = "done" =>
              /\ run.stages = SixStages
              /\ run.outcome = "returned"
              /\ run.result[1].success
              /\ run.result[1].analysisReport.themeAnalysis.themeClusters = <<>>
              /\ DOMAIN run.result[1].analysisReport.themeAnalysis.hierarchicalStructure
                    = {}

\* a call whose semantic analysis failed has returned, on an analyzer that
\* held a theme cluster and a hierarchy from the call before
SemanticFailureWitness ==
    /\ run.semanticThrew
    /\ run.pc = "done"
    /\ run.outcome = "returned"
    /\ run.analyzerBefore.themeSemanticData # <<>>
    /\ run.analyzerBefore.themeSemanticData[1].semanticGroups # <<>>
    /\ DOMAIN run.analyzerBefore.themeSemanticData[1].hierarchicalStructure # {}

\* the stages of a call that runs to its end
StagesOf(r) ==
    IF r.config = <<>> \/ r.config[1].enableSemanticAnalysis
    THEN SixStages
    ELSE <<"validate", "extract", "populate", "graph", "report">>

-----------------------------------------------------------------------------
(* SemanticAnalyzer: getEmbeddings and calculateSemanticSimilarity.        *)
(*                                                                         *)
(* A vector is [length, at, over]: its number of components, and for each  *)
(* index (from 0) of a component that was written the numerator at[index]  *)
(* of that component over the denominator `over`; the other components    *)
(* are 0.  A place of an array that may be empty is <<>> when it is and    *)
(* <<v>> when it holds v.  The value of cosineSimilarity is the pair       *)
(* <<dot, square>> for dot / sqrt(square), the rounding of the floating    *)
(* point operations aside.  Positions in arrays count from 1.              *)

\* at most MaxSemanticCalls calls of getEmbeddings and
\* calculateSemanticSimilarity
MaxSemanticCalls == 3

\* String.prototype.charCodeAt, on the characters of the model
charCodeAt(c) ==
    CASE c = " " -> 32  [] c = "A" -> 65  [] c = "B" -> 66  [] c = "_" -> 95
      [] c = "a" -> 97  [] c = "b" -> 98  [] c = "c" -> 99  [] c = "d" -> 100
      [] c = "e" -> 101 [] c = "|" -> 124

\* hash & hash : the conversion to a signed 32-bit integer.  The texts of
\* the model have at most five characters, for which ((hash << 5) - hash)
\* + char stays below 2^31 and the conversion changes nothing.
ToInt32(n) == n

RECURSIVE HashFrom(_, _)
HashFrom(hash, str) ==
    IF str = <<>> THEN hash
    ELSE HashFrom(ToInt32((hash * 32 - hash) + charCodeAt(Head(str))), Tail(str))

hashString(str) ==
    LET hash == HashFrom(0, str)
    IN  IF hash < 0 THEN -hash ELSE hash

StopWords ==
    { <<"t", "h", "e">>, <<"a">>, <<"a", "n">>, <<"a", "n", "d">>, <<"o", "r">>,
      <<"b", "u", "t">>, <<"i", "n">>, <<"o", "n">>, <<"a", "t">>, <<"t", "o">>,
      <<"f", "o", "r">>, <<"o", "f">>, <<"w", "i", "t", "h">>, <<"b", "y">> }

isStopWord(word) == word \in StopWords

\* toLowerCase, [^\w\s] to " ", split on /\s+/, without the empty pieces and
\* the stop words
tokenize(text) ==
    SelectSeq(split(ReplaceSpaceRuns(
                        ReplaceNonWord([i \in DOMAIN text |-> toLowerCase(text[i])]),
                        " ")),
              LAMBDA word : Len(word) > 0 /\ ~isStopWord(word))

\* new Array(384).fill(0), and 1 / words.length added at hashString(word) %
\* 384 for each word
createFallbackEmbedding(text) ==
    LET words == tokenize(text)
        at(i) == hashString(words[i]) % 384
    IN  [length |-> 384,
         at |-> [k \in { at(i) : i \in DOMAIN words } |->
                    Cardinality({ i \in DOMAIN words : at(i) = k })],
         over |-> IF words = <<>> THEN 1 ELSE Len(words)]

RECURSIVE SumProducts(_, _, _)
SumProducts(a, b, indices) ==
    IF indices = {} THEN 0
    ELSE LET k == CHOOSE k \in indices : TRUE
         IN  a[k] * b[k] + SumProducts(a, b, indices \ {k})

ZeroSimilarity == <<0, 1>>

\* vecA and vecB are places: undefined (<<>>) or a vector.  The components
\* of a vector are its numerators up to the factor 1 / over, which the
\* quotient does not depend on.
cosineSimilarity(vecA, vecB) ==
    IF vecA = <<>> \/ vecB = <<>> THEN ZeroSimilarity
    ELSE IF vecA[1].length # vecB[1].length THEN ZeroSimilarity
    ELSE LET a == vecA[1].at
             b == vecB[1].at
             dotProduct == SumProducts(a, b, DOMAIN a \cap DOMAIN b)
             normA == SumProducts(a, a, DOMAIN a)
             normB == SumProducts(b, b, DOMAIN b)
         IN  IF normA = 0 \/ normB = 0 THEN ZeroSimilarity
             ELSE <<dotProduct, normA * normB>>

\* a text that is not a string: the array ["b"], with neither trim nor
\* toLowerCase, that sort and join convert to the string "b"
ArrayText == <<"[b]">>

IsText(text) == text # ArrayText

toString(text) == IF text = ArrayText THEN <<"b">> ELSE text

\* the arrays given to getEmbeddings: " b" trims to "b", which shares a
\* word with "b c"
TextsInputs ==
    { <<>>, <<ArrayText>>, << <<"b">> >>, << <<" ", "b">>, <<"b", " ", "c">> >> }

\* the pairs given to calculateSemanticSimilarity
SimilarityInputs ==
    { << <<"b", " ", "c">>, <<"b">> >>, << <<"b">>, <<"b", " ", "c">> >>,
      << <<" ", "b">>, <<"b">> >>, << ArrayText, <<"b">> >> }

\* counts of the words of text1 and text2 over the words of both; throws
\* in tokenize if one of them is not a string
calculateTFIDFSimilarity(text1, text2) ==
    IF ~IsText(text1) \/ ~IsText(text2)
    THEN [threw |-> "TypeError", value |-> <<>>]
    ELSE LET words1 == tokenize(text1)
             words2 == tokenize(text2)
             allWords == Range(words1) \cup Range(words2)
             vec(words) ==
                 [length |-> Cardinality(allWords),
                  at |-> [w \in allWords |->
                             Cardinality({ i \in DOMAIN words : words[i] = w })],
                  over |-> 1]
         IN  [threw |-> "",
              value |-> <<cosineSimilarity(<<vec(words1)>>, <<vec(words2)>>)>>]

\* what the Embedding Oracle may send for two texts
OracleData ==
    LET v1 == [length |-> 1536, at |-> (0 :> 1), over |-> 1]
        v2 == [length |-> 1536, at |-> (0 :> 1) @@ (1 :> 1), over |-> 1]
    IN  { <<v1, v2>>, <<v2, v1>> }

NoRequest == [kind |-> "none", data |-> <<>>]

\* what becomes of a request for n texts (n <= 2): fetch or response.json()
\* throws, the answer is an error payload (no data field), or it has data,
\* with a vector for each of the first m texts
OracleAnswers(n) ==
    { [kind |-> "throws", data |-> <<>>], [kind |-> "error", data |-> <<>>] }
        \cup { [kind |-> "data", data |-> SubSeq(d, 1, m)] :
                  d \in OracleData, m \in 0..n }

\* the positions of texts whose trimmed text has no cached embedding, in
\* order
RECURSIVE IndicesFrom(_, _, _)
IndicesFrom(sa, texts, i) ==
    IF i > Len(texts) THEN <<>>
    ELSE IF hashString(trim(texts[i])) \in DOMAIN sa.embeddingsCache
         THEN IndicesFrom(sa, texts, i + 1)
         ELSE <<i>> \o IndicesFrom(sa, texts, i + 1)

\* textsToFetch of getEmbeddings(texts); nothing when trim throws
TextsToFetch(sa, texts) ==
    IF \E i \in DOMAIN texts : ~IsText(texts[i]) THEN <<>>
    ELSE LET indices == IndicesFrom(sa, texts, 1)
         IN  [k \in DOMAIN indices |-> trim(texts[indices[k]])]

AnswersTo(request) ==
    IF request = <<>> THEN {NoRequest} ELSE OracleAnswers(Len(request))

\* data.data.forEach: embeddingsCache.set for each vector received
RECURSIVE CacheReceived(_, _, _)
CacheReceived(cache, textsToFetch, data) ==
    IF data = <<>> THEN cache
    ELSE CacheReceived(FnSet(cache, hashString(Head(textsToFetch)), Head(data)),
                       Tail(textsToFetch), Tail(data))

\* the catch block that fills nothing
Fallback_None(cached, indices, textsToFetch) == cached

\* the catch block: results[indices[i]] = createFallbackEmbedding(textsToFetch[i])
Fallback(cached, indices, textsToFetch) ==
    [i \in DOMAIN cached |->
        IF \E k \in DOMAIN indices : indices[k] = i
        THEN <<createFallbackEmbedding(
                   textsToFetch[CHOOSE k \in DOMAIN indices : indices[k] = i])>>
        ELSE cached[i]]

\* getEmbeddings(texts) on the analyzer sa, the Embedding Oracle answering
\* with answer if it is asked
getEmbeddings(sa, texts, answer) ==
    IF \E i \in DOMAIN texts : ~IsText(texts[i])
    THEN [analyzer |-> sa, threw |-> "TypeError", results |-> <<>>,
          textsToFetch |-> <<>>, indices |-> <<>>]
    ELSE LET cache == sa.embeddingsCache
             indices == IndicesFrom(sa, texts, 1)
             textsToFetch == TextsToFetch(sa, texts)
             cached == [i \in DOMAIN texts |->
                           IF hashString(trim(texts[i])) \in DOMAIN cache
                           THEN <<cache[hashString(trim(texts[i]))]>>
                           ELSE <<>>]
             data == answer.data
             received == [i \in DOMAIN texts |->
                             IF \E k \in DOMAIN data : indices[k] = i
                             THEN <<data[CHOOSE k \in DOMAIN data : indices[k] = i]>>
                             ELSE cached[i]]
         IN  [analyzer |->
                  IF textsToFetch # <<>> /\ answer.kind = "data"
                  THEN [sa EXCEPT !.embeddingsCache =
                                      CacheReceived(@, textsToFetch, data)]
                  ELSE sa,
              threw |-> "",
              results |->
                  IF textsToFetch = <<>> THEN cached
                  ELSE IF answer.kind = "throws"
                       THEN Fallback(cached, indices, textsToFetch)
                       ELSE IF answer.kind = "data" THEN received
                       ELSE cached,
              textsToFetch |-> textsToFetch,
              indices |-> indices]

\* s < t as the default sort compares strings: by UTF-16 code units
RECURSIVE Precedes(_, _)
Precedes(s, t) ==
    IF t = <<>> THEN FALSE
    ELSE IF s = <<>> THEN TRUE
    ELSE IF charCodeAt(Head(s)) # charCodeAt(Head(t))
         THEN charCodeAt(Head(s)) < charCodeAt(Head(t))
         ELSE Precedes(Tail(s), Tail(t))

\* the key made without sorting
SimilarityKey_Unsorted(text1, text2) == toString(text1) \o <<"|">> \o toString(text2)

\* [text1, text2].sort().join('|')
SimilarityKey(text1, text2) ==
    IF Precedes(toString(text2), toString(text1))
    THEN toString(text2) \o <<"|">> \o toString(text1)
    ELSE toString(text1) \o <<"|">> \o toString(text2)

\* what calculateSemanticSimilarity(text1, text2) asks the Embedding Oracle
SimilarityRequest(sa, text1, text2) ==
    IF SimilarityKey(text1, text2) \in DOMAIN sa.similarityCache THEN <<>>
    ELSE TextsToFetch(sa, <<text1, text2>>)

calculateSemanticSimilarity(sa, text1, text2, answer) ==
    LET cacheKey == SimilarityKey(text1, text2)
        embeddings == getEmbeddings(sa, <<text1, text2>>, answer)
        similarity == cosineSimilarity(embeddings.results[1], embeddings.results[2])
        fallbackSimilarity == calculateTFIDFSimilarity(text1, text2)
    IN  IF cacheKey \in DOMAIN sa.similarityCache
        THEN [analyzer |-> sa, threw |-> "", value |-> <<sa.similarityCache[cacheKey]>>,
              embeddings |-> <<>>]
        ELSE IF embeddings.threw = ""
        THEN [analyzer |-> [embeddings.analyzer EXCEPT
                               !.similarityCache = FnSet(@, cacheKey, similarity)],
              threw |-> "", value |-> <<similarity>>,
              embeddings |-> embeddings.results]
        ELSE IF fallbackSimilarity.threw = ""
        THEN [analyzer |-> [sa EXCEPT !.similarityCache =
                                          FnSet(@, cacheKey, fallbackSimilarity.value[1])],
              threw |-> "", value |-> fallbackSimilarity.value, embeddings |-> <<>>]
        ELSE [analyzer |-> sa, threw |-> fallbackSimilarity.threw, value |-> <<>>,
              embeddings |-> <<>>]

GetEmbeddings ==
    \E texts \in TextsInputs :
        \E answer \in AnswersTo(TextsToFetch(semanticAnalyzer, texts)) :
            LET r == getEmbeddings(semanticAnalyzer, texts, answer)
            IN  /\ semanticCall.number < MaxSemanticCalls
                /\ semanticAnalyzer' = r.analyzer
                /\ semanticCall' =
                       [number |-> semanticCall.number + 1, op |-> "getEmbeddings",
                        texts |-> texts, oracle |-> answer,
                        textsToFetch |-> r.textsToFetch, indices |-> r.indices,
                        cacheBefore |-> semanticAnalyzer.embeddingsCache,
                        threw |-> r.threw, results |-> r.results, value |-> <<>>]
                /\ UNCHANGED <<storeVars, ret, snapshot, extractedData, themesBefore,
                               connectionsBefore, run, analyzer, fallbackCalls>>

CalculateSemanticSimilarity ==
    \E texts \in SimilarityInputs :
        \E answer \in AnswersTo(SimilarityRequest(semanticAnalyzer, texts[1], texts[2])) :
            LET text1 == texts[1]
                text2 == texts[2]
                r == calculateSemanticSimilarity(semanticAnalyzer, text1, text2, answer)
                request == SimilarityRequest(semanticAnalyzer, text1, text2)
            IN  /\ semanticCall.number < MaxSemanticCalls
                /\ semanticAnalyzer' = r.analyzer
                /\ semanticCall' =
                       [number |-> semanticCall.number + 1,
                        op |-> "calculateSemanticSimilarity",
                        texts |-> <<text1, text2>>, oracle |-> answer,
                        textsToFetch |-> request,
                        indices |-> IF request = <<>> THEN <<>>
                                    ELSE IndicesFrom(semanticAnalyzer, <<text1, text2>>, 1),
                        cacheBefore |-> semanticAnalyzer.embeddingsCache,
                        threw |-> r.threw, results |-> r.embeddings, value |-> r.value]
                /\ fallbackCalls' =
                       IF answer.kind = "throws"
                       THEN fallbackCalls \cup
                                { [number |-> semanticCall.number + 1, text1 |-> text1,
                                   text2 |-> text2, threw |-> r.threw, value |-> r.value] }
                       ELSE fallbackCalls
                /\ UNCHANGED <<storeVars, ret, snapshot, extractedData, themesBefore,
                               connectionsBefore, run, analyzer>>

NextEmbed ==
    \/ GetEmbeddings
    \/ CalculateSemanticSimilarity

SpecEmbed == Init /\ [][NextEmbed]_vars

-----------------------------------------------------------------------------
(* Properties of getEmbeddings and calculateSemanticSimilarity (SpecEmbed). *)

\* results[i] of the last call is the cached embedding of texts[i], the
\* vector the Embedding Oracle sent for it, or its fallback embedding
HoldsVectorOf(call, i) ==
    LET text == trim(call.texts[i])
    IN  /\ call.results[i] # <<>>
        /\ \/ /\ hashString(text) \in DOMAIN call.cacheBefore
              /\ call.results[i] = <<call.cacheBefore[hashString(text)]>>
           \/ \E k \in DOMAIN call.oracle.data :
                 call.indices[k] = i /\ call.results[i] = <<call.oracle.data[k]>>
           \/ call.results[i] = <<createFallbackEmbedding(text)>>

\* C19: getEmbeddings(texts) returns a vector for every position of texts,
\* in the order of texts (the cached one, the one of the Embedding Oracle or
\* the fallback pseudo-embedding), whether the Embedding Oracle call throws,
\* returns an error payload without data, or returns fewer vectors than
\* texts were requested.
EveryPositionHasVector ==
    (semanticCall.op = "getEmbeddings" /\ semanticCall.threw = "")
        => /\ DOMAIN semanticCall.results = DOMAIN semanticCall.texts
           /\ \A i \in DOMAIN semanticCall.texts : HoldsVectorOf(semanticCall, i)

\* the part of C19 that the code has: when the Embedding Oracle call throws,
\* every position holds a vector
ThrowFallsBack ==
    (/\ semanticCall.op = "getEmbeddings"
     /\ semanticCall.threw = ""
     /\ semanticCall.oracle.kind \in {"none", "throws"})
        => \A i \in DOMAIN semanticCall.texts : HoldsVectorOf(semanticCall, i)

\* C20: when the Embedding Oracle call throws, calculateSemanticSimilarity
\* (text1, text2) raises nothing; what it returns is the cosine of two
\* vectors of which each one that was not cached is the fallback
\* pseudo-embedding; it is in the similarity cache under a key that is the
\* same for (text1, text2) and (text2, text1); and a later call with the
\* arguments swapped returns the same value.
FallbackSimilarityIsSymmetric ==
    LET call == semanticCall
        text1 == call.texts[1]
        text2 == call.texts[2]
    IN  /\ (call.op = "calculateSemanticSimilarity" /\ call.oracle.kind = "throws")
               => /\ call.threw = ""
                  /\ call.value # <<>>
                  /\ \A i \in 1..2 : HoldsVectorOf(call, i)
                  /\ \E i \in 1..2 :
                         call.results[i] = <<createFallbackEmbedding(trim(call.texts[i]))>>
                  /\ call.value[1] = cosineSimilarity(call.results[1], call.results[2])
                  /\ SimilarityKey(text1, text2) = SimilarityKey(text2, text1)
                  /\ SimilarityKey(text2, text1) \in DOMAIN semanticAnalyzer.similarityCache
                  /\ semanticAnalyzer.similarityCache[SimilarityKey(text2, text1)]
                         = call.value[1]
        /\ \A earlier \in fallbackCalls :
               (/\ call.op = "calculateSemanticSimilarity"
                /\ call.number > earlier.number
                /\ call.texts = <<earlier.text2, earlier.text1>>)
                   => (call.threw = "" /\ call.value = earlier.value)

\* the similarity of "b c" and "b" was computed from their fallback
\* embeddings when the Embedding Oracle call threw, and the next call, for
\* "b" and "b c", returned it from the cache
SwappedCallWitness ==
    /\ semanticCall.op = "calculateSemanticSimilarity"
    /\ semanticCall.texts = << <<"b">>, <<"b", " ", "c">> >>
    /\ semanticCall.oracle.kind = "none"
    /\ semanticCall.value = << <<1, 2>> >>
    /\ \E earlier \in fallbackCalls :
          /\ earlier.number + 1 = semanticCall.number
          /\ earlier.text1 = <<"b", " ", "c">>
          /\ earlier.text2 = <<"b">>
          /\ earlier.value = semanticCall.value

-----------------------------------------------------------------------------
(* One store under add and link calls, one export() and any number of      *)
(* import(data) of what export() returned.  The entity arrays of the       *)
(* snapshot hold the objects of the store, so a field that a later call    *)
(* changes on an object of the store (a set field, frequency) has changed  *)
(* in the snapshot as well; the index arrays and nextId are copies.        *)

\* at most MaxRecordDocs documents in the store, and MaxRecordLinks
\* successful link calls
MaxRecordDocs == 2
MaxRecordLinks == 2

\* data as the caller holds it once the store is s: the objects of its
\* entity arrays are objects of s
SharedWith(data, s) ==
    LET Now(entries, map) ==
            [i \in DOMAIN entries |->
                IF Has(map, entries[i].id) THEN Get(map, entries[i].id) ELSE entries[i]]
    IN  [data EXCEPT !.documents = Now(@, s.documents),
                     !.themes = Now(@, s.themes),
                     !.definitions = Now(@, s.definitions)]

\* the call op with the outcome r, on the store whose snapshot the caller
\* may hold
Recorded(op, r) ==
    /\ Call(op, r)
    /\ snapshot' = IF snapshot = <<>> THEN <<>> ELSE <<SharedWith(snapshot[1], r.store)>>
    /\ UNCHANGED <<extractedData, themesBefore, otherVars>>

RecordAddDocument ==
    \E d \in DocInputs :
        /\ nextId <= MaxRecordDocs
        /\ Recorded("addDocument", addDocument(Store, d.title, d.content))

\* one theme and one definition are enough for the links
RecordThemeInputs == { t \in ThemeInputs : t.label = <<"c">> }

RecordAddTheme ==
    \E t \in RecordThemeInputs :
        Recorded("addTheme", addTheme(Store, t.label, t.category, t.importance))

RecordAddDefinition ==
    \E d \in DefinitionInputs :
        Recorded("addDefinition",
                 addDefinition(Store, d.term, d.definition, d.context, d.importance))

RecordLinkDocumentToTheme ==
    \E docId \in Keys(documents), themeId \in Keys(themes), l \in LinkInputs :
        /\ LinkCalls < MaxRecordLinks
        /\ Recorded("linkDocumentToTheme",
                    linkDocumentToTheme(Store, docId, themeId, l.confidence, l.context))

RecordLinkDocumentToDefinition ==
    \E docId \in Keys(documents), definitionId \in Keys(definitions) :
        /\ LinkCalls < MaxRecordLinks
        /\ Recorded("linkDocumentToDefinition",
                    linkDocumentToDefinition(Store, docId, definitionId))

\* const data = export(), once
RecordExport ==
    /\ snapshot = <<>>
    /\ snapshot' = <<export(Store)>>
    /\ ret' = [op |-> "export", threw |-> "", value |-> "data"]
    /\ UNCHANGED <<storeVars, extractedData, themesBefore, otherVars>>

\* import(data)
RecordImport ==
    /\ snapshot # <<>>
    /\ Recorded("import", import(Store, snapshot[1]))

NextRecords ==
    \/ RecordAddDocument
    \/ RecordAddTheme
    \/ RecordAddDefinition
    \/ RecordLinkDocumentToTheme
    \/ RecordLinkDocumentToDefinition
    \/ RecordExport
    \/ RecordImport

SpecRecords == Init /\ [][NextRecords]_vars

\* C21  Every call of addDocument, in any state reached by addDocument,
\* link, export and import(export()) calls, returns an id that no stored
\* document has, adds one document to the store and leaves the stored
\* documents and the entries of the four indices as they were, whatever the
\* title and the content.
AddDocumentCreates ==
    [][ ret'.op = "addDocument"
            => /\ ~Has(documents, ret'.value)
               /\ Has(documents', ret'.value)
               /\ Len(documents') = Len(documents) + 1
               /\ \A i \in DOMAIN documents : documents'[i] = documents[i]
               /\ \A docId \in Keys(documents) :
                     /\ themesByDocument'[docId] = themesByDocument[docId]
                     /\ definitionsByDocument'[docId] = definitionsByDocument[docId]
               /\ documentsByTheme' = documentsByTheme
               /\ documentsByDefinition' = documentsByDefinition ]_vars

\* addDocument has returned doc-2 for a title and content that doc-1 has,
\* after the import of a snapshot taken before an earlier doc-2 was added
\* and linked: a theme of the snapshot still names the earlier doc-2
AddDocumentWitness ==
    /\ ret.op = "addDocument"
    /\ ret.value = DocId(2)
    /\ Len(documents) = 2
    /\ documents[1].title = documents[2].title
    /\ documents[1].content = documents[2].content
    /\ \E i \in DOMAIN themes :
          /\ DocId(2) \in themes[i].documents
          /\ DocId(2) \notin documentsByTheme[themes[i].id]

-----------------------------------------------------------------------------
(* The store under add and link calls with labels and terms that hit the   *)
(* dedup of addTheme and of addDefinition.                                 *)

\* at most MaxDedupDocs documents and MaxDedupLinks successful link calls
MaxDedupDocs == 1
MaxDedupLinks == 1

\* "a b c d" and "a b c d e" are similar (4/5); "a b c" is related to both
\* (3/4 and 3/5) and similar to neither; "c" is related to none
DedupThemeInputs ==
    { [label |-> <<"a", " ", "b", " ", "c", " ", "d">>, category |-> "general",
       importance |-> 9],
      [label |-> <<"a", " ", "b", " ", "c", " ", "d", " ", "e">>,
       category |-> "energy", importance |-> 7],
      [label |-> <<"a", " ", "b", " ", "c">>, category |-> "general", importance |-> 5],
      [label |-> <<"c">>, category |-> "energy", importance |-> 6] }

\* two terms that normalize to "b"
DedupDefinitionInputs ==
    { [term |-> <<"b", ".">>, definition |-> <<"e", " ">>, context |-> "intro",
       importance |-> 5],
      [term |-> <<"B">>, definition |-> <<"d">>, context |-> "", importance |-> 8] }

DedupAddDocument ==
    \E d \in DocInputs :
        /\ nextId <= MaxDedupDocs
        /\ Call("addDocument", addDocument(Store, d.title, d.content))
        /\ UNCHANGED <<snapshot, extractedData, themesBefore, otherVars>>

DedupAddTheme ==
    \E t \in DedupThemeInputs :
        /\ Call("addTheme", addTheme(Store, t.label, t.category, t.importance))
        /\ UNCHANGED <<snapshot, extractedData, themesBefore, otherVars>>

DedupAddDefinition ==
    \E d \in DedupDefinitionInputs :
        /\ Call("addDefinition",
                addDefinition(Store, d.term, d.definition, d.context, d.importance))
        /\ UNCHANGED <<snapshot, extractedData, themesBefore, otherVars>>

DedupLinkDocumentToTheme ==
    \E docId \in Keys(documents), themeId \in Keys(themes), l \in LinkInputs :
        /\ LinkCalls < MaxDedupLinks
        /\ Call("linkDocumentToTheme",
                linkDocumentToTheme(Store, docId, themeId, l.confidence, l.context))
        /\ UNCHANGED <<snapshot, extractedData, themesBefore, otherVars>>

DedupLinkDocumentToDefinition ==
    \E docId \in Keys(documents), definitionId \in Keys(definitions) :
        /\ LinkCalls < MaxDedupLinks
        /\ Call("linkDocumentToDefinition",
                linkDocumentToDefinition(Store, docId, definitionId))
        /\ UNCHANGED <<snapshot, extractedData, themesBefore, otherVars>>

NextDedup ==
    \/ DedupAddDocument
    \/ DedupAddTheme
    \/ DedupAddDefinition
    \/ DedupLinkDocumentToTheme
    \/ DedupLinkDocumentToDefinition

SpecDedup == Init /\ [][NextDedup]_vars

\* the step is addTheme(t.label, t.category, t.importance), a stored theme
\* having similarity >= 0.8 with the label
AddThemeHit(t) ==
    /\ findSimilarTheme(themes, normalizeText(t.label)) # 0
    /\ Call("addTheme", addTheme(Store, t.label, t.category, t.importance))

\* the step is addDefinition(d.term, ...), a definition of the same
\* normalized term being stored
AddDefinitionHit(d) ==
    /\ Has(definitions, DefinitionId(normalizeText(d.term)))
    /\ Call("addDefinition",
            addDefinition(Store, d.term, d.definition, d.context, d.importance))

\* C22  A dedup hit changes nothing in the store: addTheme with a label that
\* has similarity >= 0.8 with a stored theme returns the id of that theme,
\* addDefinition with the normalized term of a stored definition returns the
\* id of that definition, and every record, index and counter of the store is
\* as before.
DedupHitChangesNothing ==
    [][ /\ \A t \in DedupThemeInputs :
              AddThemeHit(t)
                  => /\ ret'.value
                          = themes[findSimilarTheme(themes, normalizeText(t.label))].id
                     /\ UNCHANGED storeVars
        /\ \A d \in DedupDefinitionInputs :
              AddDefinitionHit(d)
                  => /\ ret'.value = DefinitionId(normalizeText(d.term))
                     /\ UNCHANGED storeVars ]_vars

\* addTheme has returned a theme that is linked to a document and related to
\* another theme, and that is not the last of the map (a new theme would
\* be); a definition is stored
DedupHitWitness ==
    /\ ret.op = "addTheme"
    /\ Has(themes, ret.value)
    /\ themes[Len(themes)].id # ret.value
    /\ Get(themes, ret.value).frequency > 0
    /\ Get(themes, ret.value).relatedThemes # {}
    /\ definitions # <<>>

-----------------------------------------------------------------------------
(* The themes under addTheme, export and import.                           *)

RelatedAddTheme ==
    \E t \in DedupThemeInputs :
        Recorded("addTheme", addTheme(Store, t.label, t.category, t.importance))

NextRelated ==
    \/ RelatedAddTheme
    \/ RecordExport
    \/ RecordImport

SpecRelated == Init /\ [][NextRelated]_vars

\* C23  relatedThemes is an undirected graph on the stored themes: no theme
\* is related to itself, every id in a.relatedThemes is the id of a stored
\* theme b with a in b.relatedThemes, and two distinct stored themes are
\* related exactly when the Jaccard similarity of their normalized labels is
\* >= 0.6.
RelatedThemesUndirected ==
    \A i \in DOMAIN themes :
        /\ themes[i].id \notin themes[i].relatedThemes
        /\ \A b \in themes[i].relatedThemes :
              /\ Has(themes, b)
              /\ themes[i].id \in Get(themes, b).relatedThemes
        /\ \A j \in DOMAIN themes :
              i # j => ( themes[j].id \in themes[i].relatedThemes
                            <=> AtLeast(calculateSimilarity(themes[i].normalizedLabel,
                                                            themes[j].normalizedLabel), 6) )

-----------------------------------------------------------------------------
(* The connection-strength cache. No method of the store writes            *)
(* connectionStrengths; here the holder of the store puts the strength of  *)
(* a pair into the map, under the key the constructor documents.           *)

\* at most MaxCacheDocs documents and MaxCacheLinks successful link calls
MaxCacheDocs == 3
MaxCacheLinks == 2

\* connectionStrengths.set("doc1|doc2", strength of the pair as of now)
CacheStrength ==
    \E a, b \in Keys(documents) :
        /\ a # b
        /\ pairKey(a, b) \notin DOMAIN connectionStrengths
        /\ Call("connectionStrengths.set",
                [store |-> [Store EXCEPT !.connectionStrengths =
                                FnSet(@, pairKey(a, b), StrengthOf(a, b))],
                 threw |-> "", value |-> "undefined"])
        /\ UNCHANGED <<snapshot, extractedData, themesBefore, otherVars>>

CacheAddDocument ==
    \E d \in DocInputs :
        /\ nextId <= MaxCacheDocs
        /\ Call("addDocument", addDocument(Store, d.title, d.content))
        /\ UNCHANGED <<snapshot, extractedData, themesBefore, otherVars>>

CacheAddTheme ==
    \E t \in RecordThemeInputs :
        /\ Call("addTheme", addTheme(Store, t.label, t.category, t.importance))
        /\ UNCHANGED <<snapshot, extractedData, themesBefore, otherVars>>

CacheAddDefinition ==
    \E d \in DefinitionInputs :
        /\ Call("addDefinition",
                addDefinition(Store, d.term, d.definition, d.context, d.importance))
        /\ UNCHANGED <<snapshot, extractedData, themesBefore, otherVars>>

CacheLinkDocumentToTheme ==
    \E docId \in Keys(documents), themeId \in Keys(themes), l \in LinkInputs :
        /\ LinkCalls < MaxCacheLinks
        /\ Call("linkDocumentToTheme",
                linkDocumentToTheme(Store, docId, themeId, l.confidence, l.context))
        /\ UNCHANGED <<snapshot, extractedData, themesBefore, otherVars>>

CacheLinkDocumentToDefinition ==
    \E docId \in Keys(documents), definitionId \in Keys(definitions) :
        /\ LinkCalls < MaxCacheLinks
        /\ Call("linkDocumentToDefinition",
                linkDocumentToDefinition(Store, docId, definitionId))
        /\ UNCHANGED <<snapshot, extractedData, themesBefore, otherVars>>

NextCache ==
    \/ CacheStrength
    \/ CacheAddDocument
    \/ CacheAddTheme
    \/ CacheAddDefinition
    \/ CacheLinkDocumentToTheme
    \/ CacheLinkDocumentToDefinition

SpecCache == Init /\ [][NextCache]_vars

\* the step is a link call of docId that returns
LinkReturns(docId) ==
    /\ ret'.threw = ""
    /\ \/ \E themeId \in Keys(themes), l \in LinkInputs :
             Call("linkDocumentToTheme",
                  linkDocumentToTheme(Store, docId, themeId, l.confidence, l.context))
       \/ \E definitionId \in Keys(definitions) :
             Call("linkDocumentToDefinition",
                  linkDocumentToDefinition(Store, docId, definitionId))

-----------------------------------------------------------------------------
(* storeDocuments on payloads of the Extraction Oracle with fields         *)
(* missing.                                                                *)

\* at most MaxPartialDocs documents are stored
MaxPartialDocs == 2

\* a theme record and a definition record with all their fields
FullTheme ==
    [theme |-> <<"c">>, category |-> "energy", importance |-> 6, confidence |-> 5,
     subthemes |-> <<>>, context |-> "intro"]

FullDefinition ==
    [term |-> <<"b", ".">>, definition |-> <<"e", " ">>, type |-> "technical",
     context |-> "intro", importance |-> 5]

\* the record with the fields of fields only
Partial(rec, fields) == [f \in fields |-> rec[f]]

\* extractedData for one document: main_themes, definitions and
\* shared_concepts absent, or one theme record or one definition record with
\* any subset of its fields
PartialInputs ==
    { [documents |-> << [summary |-> "sun"] >>] }
    \cup { [documents |-> << [main_themes |-> << Partial(FullTheme, fields) >>] >>] :
             fields \in SUBSET DOMAIN FullTheme }
    \cup { [documents |-> << [definitions |-> << Partial(FullDefinition, fields) >>] >>,
            shared_concepts |-> <<>>] :
             fields \in SUBSET DOMAIN FullDefinition }

StorePartial ==
    \E extracted \in PartialInputs :
        /\ nextId <= MaxPartialDocs
        /\ Call("storeDocuments",
                storeDocuments(Store, << [title |-> <<"A">>, content |-> "solar"] >>,
                               extracted))
        /\ extractedData' = <<extracted>>
        /\ UNCHANGED <<snapshot, themesBefore, otherVars>>

NextPartial == StorePartial

SpecPartial == Init /\ [][NextPartial]_vars

\* C25  storeDocuments completes without raising on every payload in which
\* main_themes, definitions or shared_concepts is absent or a theme record
\* or definition record lacks any subset of its fields.
PartialPayloadStored == ret.op = "storeDocuments" => ret.threw = ""

\* every record of the payload names its theme, and its term and definition
Named(extracted) ==
    \A i \in DOMAIN extracted.documents :
        /\ \A n \in DOMAIN OrEmpty(extracted.documents[i], "main_themes") :
              "theme" \in DOMAIN extracted.documents[i].main_themes[n]
        /\ \A n \in DOMAIN OrEmpty(extracted.documents[i], "definitions") :
              /\ "term" \in DOMAIN extracted.documents[i].definitions[n]
              /\ "definition" \in DOMAIN extracted.documents[i].definitions[n]

\* storeDocuments completes on the payloads that lack other fields only,
\* with the category "general", the importance 1.0, the confidence 1.0 and
\* the context ''
NamedPayloadStored ==
    (ret.op = "storeDocuments" /\ Named(extractedData[1]))
        => /\ ret.threw = ""
           /\ \A i \in DOMAIN themes :
                 /\ themes[i].category \in {"energy", "general"}
                 /\ themes[i].importance \in {6, 10}
                 /\ \A docId \in themes[i].documents :
                       /\ linkMetadata[LinkKey(docId, themes[i].id)].confidence \in {5, 10}
                       /\ linkMetadata[LinkKey(docId, themes[i].id)].context
                             \in {"intro", ""}
           /\ \A i \in DOMAIN definitions :
                 /\ definitions[i].importance \in {5, 10}
                 /\ definitions[i].context \in {"intro", ""}

-----------------------------------------------------------------------------
(* What a failed processDocuments leaves in the store (SpecPipeline).      *)

\* the last processDocuments call has failed in stage
RunFailedIn(stages) ==
    run.pc = "done" /\ run.outcome = "raised" /\ run.failedIn \in stages

\* C26  A processDocuments call that fails at validation or at the
\* Extraction Oracle call leaves the store as it was before the call; a call
\* that fails in storeDocuments or later leaves in the store all that
\* storeDocuments wrote up to the failure, and all that was stored before.
FailedRunKeepsWrites ==
    /\ RunFailedIn({"validate", "extract"}) => Store = run.storeBefore
    /\ RunFailedIn({"populate", "semantic", "graph", "report"})
          => /\ Store = storeDocuments(run.storeBefore, run.documents,
                                       run.extractedData[1]).store
             /\ \A i \in DOMAIN run.storeBefore.documents :
                   documents[i].id = run.storeBefore.documents[i].id

\* the second call has failed in storeDocuments after it had stored a
\* document, a theme and their link
FailedRunWitness ==
    /\ RunFailedIn({"populate"})
    /\ run.number = 2
    /\ run.storeBefore.documents # <<>>
    /\ \E i \in DOMAIN documents :
          /\ ~Has(run.storeBefore.documents, documents[i].id)
          /\ documents[i].themes # {}
          /\ \A t \in documents[i].themes :
                documents[i].id \in documentsByTheme[t]

\* the ids of the nodes of graph
NodeIds(graph) == { graph.nodes[i].id : i \in DOMAIN graph.nodes }

\* C27  In the graph payload of every processDocuments call, the first and
\* the later ones, the source and the target of every edge are ids of nodes
\* of the payload and no two nodes have the same id.
GraphIsClosed ==
    run.graphData # <<>>
        => /\ \A i \in DOMAIN run.graphData[1].links :
                 /\ run.graphData[1].links[i].source \in NodeIds(run.graphData[1])
                 /\ run.graphData[1].links[i].target \in NodeIds(run.graphData[1])
           /\ \A i, j \in DOMAIN run.graphData[1].nodes :
                 run.graphData[1].nodes[i].id = run.graphData[1].nodes[j].id => i = j

\* no two nodes of a payload have the same id
NodesDistinct ==
    run.graphData # <<>>
        => Cardinality(NodeIds(run.graphData[1])) = Len(run.graphData[1].nodes)

\* the same of the first call on the analyzer only
FirstGraphIsClosed == run.number = 1 => GraphIsClosed

-----------------------------------------------------------------------------
(* The store under link calls that are repeated.                           *)

\* at most MaxRelinkDocs documents and MaxRelinkLinks successful link calls
MaxRelinkDocs == 2
MaxRelinkLinks == 3

\* the confidence and the context of a link call
RelinkInputs ==
    { [confidence |-> 7, context |-> "abstract"], [confidence |-> 3, context |-> ""] }

RelinkAddDocument ==
    \E d \in DocInputs :
        /\ nextId <= MaxRelinkDocs
        /\ Call("addDocument", addDocument(Store, d.title, d.content))
        /\ UNCHANGED <<snapshot, extractedData, themesBefore, otherVars>>

RelinkAddTheme ==
    \E t \in RecordThemeInputs :
        /\ Call("addTheme", addTheme(Store, t.label, t.category, t.importance))
        /\ UNCHANGED <<snapshot, extractedData, themesBefore, otherVars>>

RelinkAddDefinition ==
    \E d \in DefinitionInputs :
        /\ Call("addDefinition",
                addDefinition(Store, d.term, d.definition, d.context, d.importance))
        /\ UNCHANGED <<snapshot, extractedData, themesBefore, otherVars>>

RelinkDocumentToTheme ==
    \E docId \in Keys(documents), themeId \in Keys(themes), l \in RelinkInputs :
        /\ LinkCalls < MaxRelinkLinks
        /\ Call("linkDocumentToTheme",
                linkDocumentToTheme(Store, docId, themeId, l.confidence, l.context))
        /\ UNCHANGED <<snapshot, extractedData, themesBefore, otherVars>>

RelinkDocumentToDefinition ==
    \E docId \in Keys(documents), definitionId \in Keys(definitions) :
        /\ LinkCalls < MaxRelinkLinks
        /\ Call("linkDocumentToDefinition",
                linkDocumentToDefinition(Store, docId, definitionId))
        /\ UNCHANGED <<snapshot, extractedData, themesBefore, otherVars>>

NextRelink ==
    \/ RelinkAddDocument
    \/ RelinkAddTheme
    \/ RelinkAddDefinition
    \/ RelinkDocumentToTheme
    \/ RelinkDocumentToDefinition

SpecRelink == Init /\ [][NextRelink]_vars

\* frequency - |documents| of every record of map
Excess(map) == [i \in DOMAIN map |-> map[i].frequency - Cardinality(map[i].documents)]

\* the records of map with the frequency left out
SetFields(map) == [i \in DOMAIN map |-> [map[i] EXCEPT !.frequency = 0]]

\* the step links docId to the theme themeId, which it is linked to already
RelinksTheme(docId, themeId, l) ==
    /\ themeId \in themesByDocument[docId]
    /\ Call("linkDocumentToTheme",
            linkDocumentToTheme(Store, docId, themeId, l.confidence, l.context))

\* the same for a definition
RelinksDefinition(docId, definitionId) ==
    /\ definitionId \in definitionsByDocument[docId]
    /\ Call("linkDocumentToDefinition",
            linkDocumentToDefinition(Store, docId, definitionId))

\* C28  The frequency counts the link calls.  A link call of a pair that is
\* linked already leaves the four indices and the set fields of all records
\* as they are, adds 1 to the frequency of the theme (of the definition) and
\* sets the link metadata of the pair to the confidence and context of the
\* call.  In every state frequency >= |documents| for every theme and
\* definition; frequency - |documents| never goes down and goes up with
\* every repeated link, so that the two are equal only if no pair of the
\* record was linked twice.
FrequencyCountsLinkCalls ==
    [][ /\ \A i \in DOMAIN themes' : Excess(themes')[i] >= 0
        /\ \A i \in DOMAIN definitions' : Excess(definitions')[i] >= 0
        /\ \A i \in DOMAIN themes : Excess(themes')[i] >= Excess(themes)[i]
        /\ \A i \in DOMAIN definitions : Excess(definitions')[i] >= Excess(definitions)[i]
        /\ \A docId \in Keys(documents), themeId \in Keys(themes), l \in RelinkInputs :
              RelinksTheme(docId, themeId, l)
                  => /\ UNCHANGED <<themesByDocument, documentsByTheme,
                                    definitionsByDocument, documentsByDefinition,
                                    documents, definitions>>
                     /\ SetFields(themes') = SetFields(themes)
                     /\ Get(themes', themeId).frequency = Get(themes, themeId).frequency + 1
                     /\ Get(themes', themeId).frequency
                           > Cardinality(Get(themes', themeId).documents)
                     /\ linkMetadata'[LinkKey(docId, themeId)]
                           = [confidence |-> l.confidence, context |-> l.context]
        /\ \A docId \in Keys(documents), definitionId \in Keys(definitions) :
              RelinksDefinition(docId, definitionId)
                  => /\ UNCHANGED <<themesByDocument, documentsByTheme,
                                    definitionsByDocument, documentsByDefinition,
                                    documents, themes, linkMetadata>>
                     /\ SetFields(definitions') = SetFields(definitions)
                     /\ Get(definitions', definitionId).frequency
                           = Get(definitions, definitionId).frequency + 1
                     /\ Get(definitions', definitionId).frequency
                           > Cardinality(Get(definitions', definitionId).documents)
      ]_vars

\* a theme linked to one document by two calls, the second with another
\* confidence, and a definition linked to one document by one call
RelinkWitness ==
    /\ ret.op = "linkDocumentToTheme"
    /\ \E i \in DOMAIN themes :
          /\ themes[i].frequency = 2
          /\ Cardinality(themes[i].documents) = 1
          /\ \A docId \in themes[i].documents :
                linkMetadata[LinkKey(docId, themes[i].id)].confidence = 3
    /\ \E i \in DOMAIN definitions :
          definitions[i].frequency = 1 /\ Cardinality(definitions[i].documents) = 1

-----------------------------------------------------------------------------
(* The relations of the documents of a store under import, add and link    *)
(* calls.                                                                  *)

\* at most MaxRelationDocs documents and MaxRelationLinks successful link
\* calls
MaxRelationDocs == 2
MaxRelationLinks == 2

\* import(data) of a snapshot of the documented shape
RelationImport ==
    \E data \in SnapshotInputs :
        /\ Call("import", import(Store, data))
        /\ UNCHANGED <<snapshot, extractedData, themesBefore, otherVars>>

RelationAddDocument ==
    \E d \in DocInputs :
        /\ nextId <= MaxRelationDocs
        /\ Call("addDocument", addDocument(Store, d.title, d.content))
        /\ UNCHANGED <<snapshot, extractedData, themesBefore, otherVars>>

RelationAddTheme ==
    \E t \in ThemeInputs :
        /\ Call("addTheme", addTheme(Store, t.label, t.category, t.importance))
        /\ UNCHANGED <<snapshot, extractedData, themesBefore, otherVars>>

RelationAddDefinition ==
    \E d \in DefinitionInputs :
        /\ Call("addDefinition",
                addDefinition(Store, d.term, d.definition, d.context, d.importance))
        /\ UNCHANGED <<snapshot, extractedData, themesBefore, otherVars>>

RelationLinkDocumentToTheme ==
    \E docId \in Keys(documents), themeId \in Keys(themes), l \in LinkInputs :
        /\ LinkCalls < MaxRelationLinks
        /\ Call("linkDocumentToTheme",
                linkDocumentToTheme(Store, docId, themeId, l.confidence, l.context))
        /\ UNCHANGED <<snapshot, extractedData, themesBefore, otherVars>>

RelationLinkDocumentToDefinition ==
    \E docId \in Keys(documents), definitionId \in Keys(definitions) :
        /\ LinkCalls < MaxRelationLinks
        /\ Call("linkDocumentToDefinition",
                linkDocumentToDefinition(Store, docId, definitionId))
        /\ UNCHANGED <<snapshot, extractedData, themesBefore, otherVars>>

\* the add and link calls
RelationCalls ==
    \/ RelationAddDocument
    \/ RelationAddTheme
    \/ RelationAddDefinition
    \/ RelationLinkDocumentToTheme
    \/ RelationLinkDocumentToDefinition

NextRelations ==
    \/ RelationImport
    \/ RelationCalls

SpecRelations == Init /\ [][NextRelations]_vars

\* the entries of b in the list related
EntriesOf(related, b) == { related[n] : n \in { m \in DOMAIN related :
                                                  related[m].documentId = b } }

\* b is in getRelatedDocuments(a) as a is in getRelatedDocuments(b)
SameRelation(a, b) ==
    \A ra \in getRelatedDocuments(a, 1, TRUE), rb \in getRelatedDocuments(b, 1, TRUE) :
        /\ EntriesOf(ra, b) = {} <=> EntriesOf(rb, a) = {}
        /\ \A ea \in EntriesOf(ra, b), eb \in EntriesOf(rb, a) :
              /\ ea.connectionStrength = eb.connectionStrength
              /\ ea.sharedThemes = eb.sharedThemes
              /\ ea.sharedDefinitions = eb.sharedDefinitions

\* docId is the source or the target of a connection of the map
InConnectivityMap(docId) ==
    \E connections \in getDocumentConnectivityMap :
        \E n \in DOMAIN connections :
            docId \in {connections[n].source, connections[n].target}

\* C29  For all stored documents a and b, b is in getRelatedDocuments(a)
\* with the strength s and the shared themes T and definitions D if and only
\* if a is in getRelatedDocuments(b) with the same s, T and D; and
\* getRelatedDocuments(a) is empty exactly when a is in no pair of
\* getDocumentConnectivityMap().
RelatednessSymmetric ==
    /\ \A a, b \in Keys(documents) : SameRelation(a, b)
    /\ \A a \in Keys(documents) :
          (\A related \in getRelatedDocuments(a, 1, TRUE) : related = <<>>)
              <=> ~InConnectivityMap(a)

-----------------------------------------------------------------------------
(* What import leaves of the store it is called on (SpecSnapshot).         *)

\* C30  After import(data) the store is what the snapshot makes of a new
\* store, whatever it held before: the maps, the indices and nextId, and
\* also the link metadata and the cached strengths, so that
\* calculateLinkStrength reads no confidence of a link made before the
\* import.
ImportDeterminedBySnapshot ==
    [][ \A data \in SnapshotInputs \cup Range(snapshot) :
            Call("import", import(Store, data))
                => /\ Store' = import(NewStore, data).store
                   /\ \A docId \in Keys(documents'), themeId \in Keys(themes') :
                         LinkKey(docId, themeId) \notin DOMAIN linkMetadata' ]_vars

\* what made the store the same after every import: the maps, the indices
\* and nextId are those of the snapshot
ImportReplacesEntities ==
    [][ \A data \in SnapshotInputs \cup Range(snapshot) :
            Call("import", import(Store, data))
                => [Store' EXCEPT !.linkMetadata = EmptyFn,
                                  !.connectionStrengths = EmptyFn]
                      = import(NewStore, data).store ]_vars

=============================================================================
